---- MODULE Spec2Model ----
(***************************************************************************)
(* A model of tarmac's remote-API layer and of the commands built on it:   *)
(*   - the cookie+CSRF client (roblox_api/legacy.rs, and its predecessor   *)
(*     roblox_web_api.rs),                                                 *)
(*   - backend selection (roblox_api/mod.rs get_preferred_client),         *)
(*   - the Open Cloud client's create-then-poll upload                     *)
(*     (roblox_api/open_cloud.rs),                                         *)
(*   - the cache-map builder (commands/create_cache_map.rs),               *)
(*   - the upload-image and asset-list commands (commands/upload_image.rs, *)
(*     commands/asset_list.rs),                                            *)
(*   - main and run (main.rs): the dispatch of the commands and the        *)
(*     select over run and ctrl-c.                                         *)
(* Each component has its own specification over the shared variables.     *)
(***************************************************************************)
EXTENDS Integers, Sequences, FiniteSets, TLC

(***************************************************************************)
(* Option<T>: None is the empty tuple, Some(x) the one-element tuple.      *)
(***************************************************************************)
None == <<>>
Some(x) == <<x>>
IsSome(o) == o # <<>>
Unwrap(o) == o[1]

(***************************************************************************)
(* Bounds and sample domains.                                              *)
(***************************************************************************)
\* number of call slots on one client
NumCalls == 2
Calls == 1..NumCalls

\* X-CSRF-Token header values a server may send
Tokens == {"T1", "T2"}
OptTokens == {None} \cup {Some(t) : t \in Tokens}

\* HTTP statuses the servers answer with
Statuses == {200, 403, 404}
FORBIDDEN == 403
IsSuccess(status) == status >= 200 /\ status < 300

\* credentials the clients are constructed from
CookieValues == {None, Some("cookie")}
ApiKeyValues == {None, Some("key")}
UserIdValues == {None, Some(11)}
GroupIdValues == {None, Some(22)}
RobloxCredentials ==
    [token : CookieValues, api_key : ApiKeyValues,
     user_id : UserIdValues, group_id : GroupIdValues]

VARIABLES
    kind,          \* which client type is instantiated: "LegacyClient" | "RobloxApiClient"
    credentials,   \* the client's RobloxCredentials
    client,        \* "none" before construction, "ready", or the constructor's error
    creator,       \* RobloxApiClient.creator
    ctor_requests, \* network requests made by the constructor
    csrf_token,    \* the cached CSRF token: Option<HeaderValue>
    csrf_lock,     \* LegacyClient.csrf_token's RwLock: 0, or the call holding the write guard
    call,          \* per call slot: the position and locals of the call in flight
    overlap,       \* whether the caller lets calls on one LegacyClient (&self) overlap
    input,         \* the RobloxCredentials handed to get_preferred_client
    selected,      \* what get_preferred_client returned: None before the call
    oc,            \* the Open Cloud client's call in flight
    cm,            \* the create_cache_map run: its position, locals and the files it writes
    ui,            \* the upload-image command: its position, locals and the steps it has run
    main,          \* a run of the sync command: its options, what it did and how it ended
    sig,           \* the interrupt (ctrl-c) of the process: "none", "pending" or "exited"
    al             \* the asset-list command: its position, its set and the file it writes

legacy_vars ==
    <<kind, credentials, client, creator, ctor_requests, csrf_token, csrf_lock, call, overlap>>
cloud_vars == <<input, selected, oc>>

\* what the actions of one component leave alone
not_legacy == <<cloud_vars, cm, ui, main, sig, al>>
not_cloud == <<legacy_vars, cm, ui, main, sig, al>>
not_cache == <<legacy_vars, cloud_vars, ui, main, sig, al>>
not_upload == <<legacy_vars, cloud_vars, cm, main, sig, al>>
not_main == <<legacy_vars, cloud_vars, cm, ui, sig, al>>
not_list == <<legacy_vars, cloud_vars, cm, ui, main, sig>>

(***************************************************************************)
(* HTTP responses.  A body is its text; what a parser makes of it is given *)
(* by FromStr (serde_json into RawUploadResponse) below.                   *)
(***************************************************************************)
UploadBodies ==
    { "{Success:true,AssetId:5,BackingAssetId:6}",
      "{Success:true}",
      "{Success:false,Message:rate limited}",
      "{Success:false,Message:inappropriate name}",
      "{Success:false}",
      "{AssetId:5}",
      "<html>Bad Gateway</html>" }

\* serde_json::from_str::<RawUploadResponse>: Success is required, the other
\* three fields are Option and default to None; anything else is an Err (None here).
RawUploadResponse(success, message, asset_id, backing_asset_id) ==
    [success |-> success, message |-> message,
     asset_id |-> asset_id, backing_asset_id |-> backing_asset_id]

FromStr(body) ==
    CASE body = "{Success:true,AssetId:5,BackingAssetId:6}" ->
            Some(RawUploadResponse(TRUE, None, Some(5), Some(6)))
      [] body = "{Success:true}" ->
            Some(RawUploadResponse(TRUE, None, None, None))
      [] body = "{Success:false,Message:rate limited}" ->
            Some(RawUploadResponse(FALSE, Some("rate limited"), None, None))
      [] body = "{Success:false,Message:inappropriate name}" ->
            Some(RawUploadResponse(FALSE, Some("inappropriate name"), None, None))
      [] body = "{Success:false}" ->
            Some(RawUploadResponse(FALSE, None, None, None))
      [] OTHER -> None

Response(status, csrf, body) == [status |-> status, csrf |-> csrf, body |-> body]
HeadOf(response) == [status |-> response.status, csrf |-> response.csrf]

\* the status lines and X-CSRF-Token headers the servers answer with
Heads ==
    { [status |-> 200, csrf |-> None], [status |-> 200, csrf |-> Some("T1")],
      [status |-> 403, csrf |-> None], [status |-> 403, csrf |-> Some("T1")],
      [status |-> 403, csrf |-> Some("T2")], [status |-> 404, csrf |-> None] }

UploadResponses ==
    { Response(h.status, h.csrf, b) : h \in Heads, b \in UploadBodies }

(***************************************************************************)
(* Download bodies, and what xml-rs's EventReader yields for each: the     *)
(* events in order; after the last one the reader repeats it for ever.     *)
(* A text is a sequence of symbols: the prefix of an asset url is one      *)
(* symbol, a digit is one symbol.                                          *)
(***************************************************************************)
ASSET_URL == "http://www.roblox.com/asset/?id="
Digits == {"0", "1", "2", "3", "4", "5", "6", "7", "8", "9"}

Event(ev, name, text) == [ev |-> ev, name |-> name, text |-> text]
StartDocument == Event("StartDocument", "", <<>>)
EndDocument == Event("EndDocument", "", <<>>)
SyntaxError == Event("Error", "", <<>>)
StartElement(name) == Event("StartElement", name, <<>>)
EndElement(name) == Event("EndElement", name, <<>>)
Characters(text) == Event("Characters", "", text)
ProcessingInstruction == Event("ProcessingInstruction", "", <<>>)

UrlDocument(text) ==
    << StartDocument, StartElement("roblox"), StartElement("url"), Characters(text),
       EndElement("url"), EndElement("roblox"), EndDocument >>

DownloadBodies ==
    { "PNG-A", "PNG-B",
      "<roblox><url>http://www.roblox.com/asset/?id=7</url></roblox>",
      "<roblox><Meta/><url>cdn:http://www.roblox.com/asset/?id=42</url></roblox>",
      "<roblox><url>http://www.roblox.com/asset/?id=7&v=1</url></roblox>",
      "<roblox><url>https://example.com/7</url></roblox>",
      "<roblox><url/></roblox>",
      "<roblox><Meta/></roblox>",
      "<html><body/></html>",
      "<?pi?><roblox/>" }

XmlEvents(body) ==
    CASE body = "<roblox><url>http://www.roblox.com/asset/?id=7</url></roblox>" ->
            UrlDocument(<<ASSET_URL, "7">>)
      [] body = "<roblox><Meta/><url>cdn:http://www.roblox.com/asset/?id=42</url></roblox>" ->
            << StartDocument, StartElement("roblox"), StartElement("Meta"),
               EndElement("Meta"), StartElement("url"),
               Characters(<<"c", "d", "n", ":", ASSET_URL, "4", "2">>),
               EndElement("url"), EndElement("roblox"), EndDocument >>
      [] body = "<roblox><url>http://www.roblox.com/asset/?id=7&v=1</url></roblox>" ->
            UrlDocument(<<ASSET_URL, "7", "&", "v", "=", "1">>)
      [] body = "<roblox><url>https://example.com/7</url></roblox>" ->
            UrlDocument(<<"h", "t", "t", "p", "s", ":", "7">>)
      [] body = "<roblox><url/></roblox>" ->
            << StartDocument, StartElement("roblox"), StartElement("url"),
               EndElement("url"), EndElement("roblox"), EndDocument >>
      [] body = "<roblox><Meta/></roblox>" ->
            << StartDocument, StartElement("roblox"), StartElement("Meta"),
               EndElement("Meta"), EndElement("roblox"), EndDocument >>
      [] body = "<html><body/></html>" ->
            << StartDocument, StartElement("html"), StartElement("body"),
               EndElement("body"), EndElement("html"), EndDocument >>
      [] body = "<?pi?><roblox/>" ->
            << StartDocument, ProcessingInstruction, StartElement("roblox"),
               EndElement("roblox"), EndDocument >>
      [] OTHER -> << SyntaxError >>

DownloadResponses ==
    { Response(h.status, h.csrf, b) : h \in Heads, b \in DownloadBodies }

(***************************************************************************)
(* Requests.  make_request builds the request of the operation; the url   *)
(* is its endpoint and the id it carries (the group id of an upload).      *)
(***************************************************************************)
Request(endpoint, arg, name) ==
    [endpoint |-> endpoint, arg |-> arg, name |-> name, data |-> None,
     cookie |-> None, csrf |-> None]

\* upload_image_raw's url: "&groupId=" is appended for a group
UploadUrlGroup ==
    IF kind = "LegacyClient"
    THEN credentials.group_id
    ELSE IF creator # None /\ creator[1] = "Group" THEN Some(creator[2]) ELSE None

\* attach_headers: the session cookie when there is one, and the cached token
CookieHeader(token) == <<".ROBLOSECURITY=", token>>

\* (mutant) the token is read without the lock: a half-written value goes out
AttachHeadersTorn(request) ==
    [request EXCEPT
        !.cookie = IF IsSome(credentials.token)
                   THEN Some(CookieHeader(Unwrap(credentials.token)))
                   ELSE None,
        !.csrf = IF IsSome(csrf_token) THEN Some("T") ELSE None]

\* (mutant) the cookie is attached, the cached token is not
AttachHeadersNoToken(request) ==
    [request EXCEPT
        !.cookie = IF IsSome(credentials.token)
                   THEN Some(CookieHeader(Unwrap(credentials.token)))
                   ELSE None,
        !.csrf = None]

AttachHeaders(request) ==
    [request EXCEPT
        !.cookie = IF IsSome(credentials.token)
                   THEN Some(CookieHeader(Unwrap(credentials.token)))
                   ELSE None,
        !.csrf = csrf_token]

\* csrf_token.read().await: granted while no write guard is held.  The old
\* client keeps the token in a plain field and reads it directly.
ReadGranted == kind = "LegacyClient" => csrf_lock = 0
WriteGranted == kind = "LegacyClient" => csrf_lock = 0

(***************************************************************************)
(* Calls.                                                                  *)
(***************************************************************************)
NoCall ==
    [pc |-> "idle", op |-> "none", moderated |-> FALSE, name |-> "", data |-> None,
     arg |-> 0, stage |-> 0,
     request |-> None, sent |-> <<>>, tries |-> 0, first |-> None, last |-> None,
     ret |-> None, doc |-> None, result |-> None]

ImageNames == {"sword"}
\* the rest of ImageUploadData: the description and the bytes of the image
UploadData == [description |-> "an icon", image_data |-> "PNG-A"]
DownloadIds == {100}

LegacyTypeOK ==
    /\ kind \in {"LegacyClient", "RobloxApiClient"}
    /\ credentials \in RobloxCredentials
    /\ csrf_token \in OptTokens \cup {Some("T0")}
    /\ csrf_lock \in {0} \cup Calls
    /\ \A c \in Calls : Len(call[c].sent) <= 4 /\ call[c].tries <= 2

(***************************************************************************)
(* Construction.  get_csrf_token posts to auth.roblox.com and returns the  *)
(* X-CSRF-Token header of the answer, or an error when there is none or    *)
(* the request fails.                                                      *)
(***************************************************************************)
CsrfFetchOutcomes == {Some("T0"), None}

\* (mutant) a failed token fetch fails the construction
LegacyClientNewStrict ==
    /\ kind = "LegacyClient"
    /\ client = "none"
    /\ IF IsSome(credentials.token)
       THEN /\ \E fetched \in CsrfFetchOutcomes :
                 /\ csrf_token' = fetched
                 /\ client' = IF IsSome(fetched) THEN "ready" ELSE "MissingCsrfToken"
            /\ ctor_requests' = ctor_requests + 1
       ELSE /\ csrf_token' = None
            /\ client' = "ready"
            /\ UNCHANGED ctor_requests
    /\ UNCHANGED <<not_legacy, overlap, kind, credentials, creator, csrf_lock, call>>

\* LegacyClient::new: never fails; fetches the token when there is a cookie
LegacyClientNew ==
    /\ kind = "LegacyClient"
    /\ client = "none"
    /\ IF IsSome(credentials.token)
       THEN /\ \E fetched \in CsrfFetchOutcomes : csrf_token' = fetched
            /\ ctor_requests' = ctor_requests + 1
       ELSE /\ csrf_token' = None
            /\ UNCHANGED ctor_requests
    /\ client' = "ready"
    /\ UNCHANGED <<not_legacy, overlap, kind, credentials, creator, csrf_lock, call>>

\* RobloxApiClient::new's match on (api_key, group_id, user_id)
CreatorOf(cr) ==
    CASE IsSome(cr.group_id) /\ ~IsSome(cr.user_id) ->
            <<"Ok", <<"Group", Unwrap(cr.group_id)>> >>
      [] ~IsSome(cr.group_id) /\ IsSome(cr.user_id) ->
            <<"Ok", <<"User", Unwrap(cr.user_id)>> >>
      [] IsSome(cr.api_key) /\ ~IsSome(cr.group_id) /\ ~IsSome(cr.user_id) ->
            <<"Err", "ApiKeyNeedsCreatorId">>
      [] IsSome(cr.group_id) /\ IsSome(cr.user_id) ->
            <<"Err", "AmbiguousCreatorType">>
      [] OTHER -> <<"Ok", None>>

\* RobloxApiClient::new (roblox_web_api.rs): MissingAuth first, then the token
\* fetch, then the creator
RobloxApiClientNew ==
    /\ kind = "RobloxApiClient"
    /\ client = "none"
    /\ IF ~IsSome(credentials.api_key) /\ ~IsSome(credentials.token)
       THEN /\ client' = "MissingAuth"
            /\ UNCHANGED <<csrf_token, ctor_requests, creator>>
       ELSE /\ IF IsSome(credentials.token)
               THEN /\ \E fetched \in CsrfFetchOutcomes : csrf_token' = fetched
                    /\ ctor_requests' = ctor_requests + 1
               ELSE /\ csrf_token' = None
                    /\ UNCHANGED ctor_requests
            /\ LET cr == CreatorOf(credentials) IN
                 IF cr[1] = "Ok"
                 THEN creator' = cr[2] /\ client' = "ready"
                 ELSE creator' = None /\ client' = cr[2]
    /\ UNCHANGED <<not_legacy, overlap, kind, credentials, csrf_lock, call>>

(***************************************************************************)
(* execute_with_csrf_retry.  A call is at one of its lines:                *)
(*   exec_attach        attach_headers of the first request                *)
(*   exec_send          client.execute(request)                            *)
(*   exec_refresh       csrf_token.write().await after a 403 with a token  *)
(*   exec_attach_retry  attach_headers of the rebuilt request              *)
(*   exec_send_retry    client.execute(new_request)                        *)
(*   exec_ret           returned to the operation that called it           *)
(***************************************************************************)
\* with overlapping calls the servers answer from a smaller set: the statuses
\* and tokens matter there, one body of each kind is enough
OverlapHeads == {h \in Heads : h.status # 404 /\ (h.status = 200 => h.csrf = None)}
OverlapUploadResponses ==
    { Response(h.status, h.csrf, "{Success:true,AssetId:5,BackingAssetId:6}") :
        h \in OverlapHeads }
OverlapDownloadResponses ==
    { Response(h.status, h.csrf, b) :
        h \in OverlapHeads,
        b \in {"PNG-A", "<roblox><url>http://www.roblox.com/asset/?id=7</url></roblox>"} }

Responses(op) ==
    IF overlap
    THEN IF op = "upload" THEN OverlapUploadResponses ELSE OverlapDownloadResponses
    ELSE IF op = "upload" THEN UploadResponses ELSE DownloadResponses

\* make_request: the closure of the operation
MakeRequest(c) ==
    IF call[c].op = "upload"
    THEN [Request("upload", UploadUrlGroup, call[c].name) EXCEPT !.data = call[c].data]
    ELSE Request("download", Some(call[c].arg), "")

\* RobloxApiClient's methods take &mut self: one call at a time.  LegacyClient's
\* take &self: its calls overlap when the caller lets them.
Sequential == (kind = "LegacyClient" /\ overlap) \/ \A d \in Calls : call[d].pc = "idle"

\* entering execute_with_csrf_retry for operation op
EnterExec(op, name, arg, stage, sent) ==
    [NoCall EXCEPT !.pc = "exec_attach", !.op = op, !.name = name, !.arg = arg,
                   !.stage = stage, !.sent = sent]

\* upload_image is called; it enters upload_image_raw and execute_with_csrf_retry
UploadImageCall(c) ==
    /\ client = "ready"
    /\ call[c].pc = "idle"
    /\ Sequential
    /\ \E n \in ImageNames :
         call' = [call EXCEPT ![c] =
                    [EnterExec("upload", n, 0, 1, <<>>) EXCEPT !.data = Some(UploadData)]]
    /\ UNCHANGED <<not_legacy, overlap, kind, credentials, client, creator, ctor_requests, csrf_token, csrf_lock>>

\* download_image is called
DownloadImageCall(c) ==
    /\ client = "ready"
    /\ call[c].pc = "idle"
    /\ Sequential
    /\ \E id \in DownloadIds :
         call' = [call EXCEPT ![c] = EnterExec("download", "", id, 1, <<>>)]
    /\ UNCHANGED <<not_legacy, overlap, kind, credentials, client, creator, ctor_requests, csrf_token, csrf_lock>>

ExecAttach(c) ==
    /\ call[c].pc = "exec_attach"
    /\ ReadGranted
    /\ call' = [call EXCEPT ![c].request = Some(AttachHeaders(MakeRequest(c))),
                            ![c].pc = "exec_send"]
    /\ UNCHANGED <<not_legacy, overlap, kind, credentials, client, creator, ctor_requests, csrf_token, csrf_lock>>

\* (mutant) every 403 is taken for a token refresh
NeedsRefreshAnyForbidden(response) == response.status = FORBIDDEN

\* the first response decides: a 403 carrying X-CSRF-Token goes on to the
\* refresh, everything else is returned as it is
NeedsRefresh(response) ==
    response.status = FORBIDDEN /\ IsSome(response.csrf)

\* the request goes out
Sent(c) ==
    [call[c] EXCEPT !.sent = Append(@, Unwrap(call[c].request)), !.tries = @ + 1]

ExecSend(c) ==
    /\ call[c].pc = "exec_send"
    /\ \/ \* client.execute(request)? fails: the error is returned
          call' = [call EXCEPT ![c] = [Sent(c) EXCEPT !.ret = Some(<<"Err", "Http">>),
                                                      !.pc = "exec_ret"]]
       \/ \E response \in Responses(call[c].op) :
            IF NeedsRefresh(response)
            THEN call' = [call EXCEPT ![c] =
                            [Sent(c) EXCEPT !.first = Some(HeadOf(response)),
                                            !.last = Some(HeadOf(response)),
                                            !.pc = "exec_refresh"]]
            ELSE call' = [call EXCEPT ![c] =
                            [Sent(c) EXCEPT !.first = Some(HeadOf(response)),
                                            !.last = Some(HeadOf(response)),
                                            !.ret = Some(<<"Ok", response>>),
                                            !.pc = "exec_ret"]]
    /\ UNCHANGED <<not_legacy, overlap, kind, credentials, client, creator, ctor_requests, csrf_token, csrf_lock>>

\* let mut csrf_token = self.csrf_token.write().await; *csrf_token = Some(csrf);
\* the guard lives to the end of the block.  The old client assigns the field.
GuardHeldBy(c) == IF kind = "LegacyClient" THEN c ELSE csrf_lock

ExecRefresh(c) ==
    /\ call[c].pc = "exec_refresh"
    /\ WriteGranted
    /\ csrf_token' = Unwrap(call[c].first).csrf
    /\ csrf_lock' = GuardHeldBy(c)
    /\ call' = [call EXCEPT ![c].pc = "exec_attach_retry"]
    /\ UNCHANGED <<not_legacy, overlap, kind, credentials, client, creator, ctor_requests>>

ExecAttachRetry(c) ==
    /\ call[c].pc = "exec_attach_retry"
    /\ ReadGranted
    /\ call' = [call EXCEPT ![c].request = Some(AttachHeaders(MakeRequest(c))),
                            ![c].pc = "exec_send_retry"]
    /\ UNCHANGED <<not_legacy, overlap, kind, credentials, client, creator, ctor_requests, csrf_token, csrf_lock>>

\* Ok(self.client.execute(new_request)?): whatever comes back is returned,
\* and the write guard is dropped with the block
ExecSendRetry(c) ==
    /\ call[c].pc = "exec_send_retry"
    /\ \/ call' = [call EXCEPT ![c] = [Sent(c) EXCEPT !.ret = Some(<<"Err", "Http">>),
                                                      !.pc = "exec_ret"]]
       \/ \E response \in Responses(call[c].op) :
            call' = [call EXCEPT ![c] =
                       [Sent(c) EXCEPT !.last = Some(HeadOf(response)),
                                       !.ret = Some(<<"Ok", response>>),
                                       !.pc = "exec_ret"]]
    /\ csrf_lock' = IF csrf_lock = c THEN 0 ELSE csrf_lock
    /\ UNCHANGED <<not_legacy, overlap, kind, credentials, client, creator, ctor_requests, csrf_token>>

(***************************************************************************)
(* upload_image and upload_image_raw, after execute_with_csrf_retry.       *)
(***************************************************************************)
\* (mutant) the body is parsed whatever the status
UploadImageRawIgnoringStatus(ret) ==
    IF ret[1] = "Err"
    THEN ret
    ELSE IF IsSome(FromStr(ret[2].body))
         THEN <<"Ok", Unwrap(FromStr(ret[2].body))>>
         ELSE <<"Err", "BadResponseJson", ret[2].body>>

\* upload_image_raw: the status decides first, then the JSON
UploadImageRaw(ret) ==
    IF ret[1] = "Err"
    THEN ret
    ELSE LET response == ret[2] IN
         IF IsSuccess(response.status)
         THEN IF IsSome(FromStr(response.body))
              THEN <<"Ok", Unwrap(FromStr(response.body))>>
              ELSE <<"Err", "BadResponseJson", response.body>>
         ELSE <<"Err", "ResponseError", response.status, response.body>>

\* (mutant) an HTTP success counts as an upload success, the flag is not read
UploadImageIgnoringFlag(ret) ==
    LET raw == UploadImageRaw(ret) IN
    IF raw[1] = "Err"
    THEN raw
    ELSE IF IsSome(raw[2].asset_id) /\ IsSome(raw[2].backing_asset_id)
         THEN <<"Ok", Unwrap(raw[2].asset_id), Unwrap(raw[2].backing_asset_id)>>
         ELSE <<"Panic", "called Option::unwrap() on a None value">>

\* upload_image: the body's flag decides; unwrap() of a missing field panics
UploadImage(ret) ==
    LET raw == UploadImageRaw(ret) IN
    IF raw[1] = "Err"
    THEN raw
    ELSE IF raw[2].success
         THEN IF IsSome(raw[2].asset_id) /\ IsSome(raw[2].backing_asset_id)
              THEN <<"Ok", Unwrap(raw[2].asset_id), Unwrap(raw[2].backing_asset_id)>>
              ELSE <<"Panic", "called Option::unwrap() on a None value">>
         ELSE IF IsSome(raw[2].message)
              THEN <<"Err", "ApiError", Unwrap(raw[2].message)>>
              ELSE <<"Panic", "called Option::unwrap() on a None value">>

\* (mutant) every failure message is taken for a moderated name
InappropriateAlways(message) == TRUE

\* message.contains("inappropriate"), over the messages of UploadBodies
Inappropriate(message) == message = "inappropriate name"

\* RobloxApiClient::upload_image_with_moderation_retry is called; it enters
\* upload_image_raw and execute_with_csrf_retry
UploadImageWithModerationRetryCall(c) ==
    /\ kind = "RobloxApiClient"
    /\ client = "ready"
    /\ call[c].pc = "idle"
    /\ Sequential
    /\ \E n \in ImageNames :
         call' = [call EXCEPT ![c] =
                    [EnterExec("upload", n, 0, 1, <<>>) EXCEPT !.data = Some(UploadData),
                                                               !.moderated = TRUE]]
    /\ UNCHANGED <<not_legacy, overlap, kind, credentials, client, creator, ctor_requests, csrf_token, csrf_lock>>

\* the first upload_image_raw of upload_image_with_moderation_retry is back:
\* as upload_image, but a failure whose message mentions "inappropriate"
\* goes on to self.upload_image(ImageUploadData { name: "image", ..data })
ModerationReturn(c) ==
    /\ call[c].pc = "exec_ret"
    /\ call[c].op = "upload"
    /\ call[c].moderated
    /\ call[c].stage = 1
    /\ LET ret == Unwrap(call[c].ret)
           raw == UploadImageRaw(ret) IN
       IF raw[1] = "Ok" /\ ~raw[2].success /\ IsSome(raw[2].message)
          /\ Inappropriate(Unwrap(raw[2].message))
       THEN call' = [call EXCEPT ![c] =
                       [EnterExec("upload", "image", 0, 2, call[c].sent)
                          EXCEPT !.data = call[c].data, !.moderated = TRUE,
                                 !.doc = Some(ret[2].body)]]
       ELSE call' = [call EXCEPT ![c].result = Some(UploadImage(ret)), ![c].pc = "done"]
    /\ UNCHANGED <<not_legacy, overlap, kind, credentials, client, creator, ctor_requests, csrf_token, csrf_lock>>

\* upload_image returns: called by itself, or for the re-upload of
\* upload_image_with_moderation_retry
UploadImageReturn(c) ==
    /\ call[c].pc = "exec_ret"
    /\ call[c].op = "upload"
    /\ call[c].moderated => call[c].stage = 2
    /\ call' = [call EXCEPT ![c].result = Some(UploadImage(Unwrap(call[c].ret))),
                            ![c].pc = "done"]
    /\ UNCHANGED <<not_legacy, overlap, kind, credentials, client, creator, ctor_requests, csrf_token, csrf_lock>>

(***************************************************************************)
(* download_image.                                                         *)
(***************************************************************************)
\* str::split on the asset url prefix: the part after its first occurrence,
\* up to the next occurrence; None when the prefix does not occur
PrefixAt(text) == {i \in 1..Len(text) : text[i] = ASSET_URL}
Least(S) == CHOOSE i \in S : \A k \in S : i <= k

SecondPart(text) ==
    IF PrefixAt(text) = {}
    THEN None
    ELSE LET at == Least(PrefixAt(text))
             later == {i \in PrefixAt(text) : i > at}
             end == IF later = {} THEN Len(text) ELSE Least(later) - 1
         IN Some(SubSeq(text, at + 1, end))

\* u64::from_str: the decimal value of a non-empty string of digits
DigitValue(d) ==
    CASE d = "0" -> 0 [] d = "1" -> 1 [] d = "2" -> 2 [] d = "3" -> 3 [] d = "4" -> 4
      [] d = "5" -> 5 [] d = "6" -> 6 [] d = "7" -> 7 [] d = "8" -> 8 [] d = "9" -> 9

RECURSIVE DecimalValue(_)
DecimalValue(text) ==
    IF text = <<>> THEN 0
    ELSE 10 * DecimalValue(SubSeq(text, 1, Len(text) - 1)) + DigitValue(text[Len(text)])

\* (mutant) a text that is no number reads as zero
U64FromStrLenient(text) ==
    IF text # <<>> /\ \A i \in 1..Len(text) : text[i] \in Digits
    THEN Some(DecimalValue(text))
    ELSE Some(0)

U64FromStr(text) ==
    IF text # <<>> /\ \A i \in 1..Len(text) : text[i] \in Digits
    THEN Some(DecimalValue(text))
    ELSE None

\* parser.next() for the i-th time: past the end the last event repeats
NextEvent(events, i) == IF i <= Len(events) THEN events[i] ELSE events[Len(events)]

\* the loop looking for the url element, from the i-th event
RECURSIVE FindUrl(_, _)
FindUrl(events, i) ==
    IF i > Len(events)
    THEN <<"Loop">>
    ELSE IF events[i].ev = "StartElement"
         THEN IF events[i].name # "url"
              THEN FindUrl(events, i + 1)
              ELSE IF NextEvent(events, i + 1).ev = "Characters"
                   THEN <<"Content", NextEvent(events, i + 1).text>>
                   ELSE <<"Err", "expected characters after url start element, got something else">>
         ELSE FindUrl(events, i + 1)

\* (mutant) the bytes are returned as they are, as the old client does
DownloadParseNoIndirection(body) == <<"Bytes">>

\* what download_image makes of the first response's bytes
DownloadParse(body) ==
    LET events == XmlEvents(body) IN
    IF NextEvent(events, 1).ev # "StartDocument"
    THEN <<"Bytes">>
    ELSE IF NextEvent(events, 2).ev # "StartElement"
    THEN <<"Bytes">>
    ELSE IF NextEvent(events, 2).name # "roblox"
    THEN <<"Err", "Unknown XML from asset delivery API">>
    ELSE LET found == FindUrl(events, 3) IN
         IF found[1] # "Content"
         THEN found
         ELSE IF ~IsSome(SecondPart(found[2]))
         THEN <<"Err", "missing asset id - did Roblox change their asset ID format?">>
         ELSE IF ~IsSome(U64FromStr(Unwrap(SecondPart(found[2]))))
         THEN <<"Err", "ParseIntError">>
         ELSE <<"Fetch", Unwrap(U64FromStr(Unwrap(SecondPart(found[2]))))>>

\* the first response of LegacyClient::download_image is back
DownloadImageParse(c) ==
    /\ call[c].pc = "exec_ret"
    /\ call[c].op = "download"
    /\ kind = "LegacyClient"
    /\ call[c].stage = 1
    /\ LET ret == Unwrap(call[c].ret) IN
       IF ret[1] = "Err"
       THEN call' = [call EXCEPT ![c].result = Some(ret), ![c].pc = "done"]
       ELSE LET parsed == DownloadParse(ret[2].body) IN
            CASE parsed[1] = "Bytes" ->
                   call' = [call EXCEPT ![c].result = Some(<<"Ok", ret[2].body>>),
                                        ![c].pc = "done"]
              [] parsed[1] = "Err" ->
                   call' = [call EXCEPT ![c].result = Some(parsed), ![c].pc = "done"]
              [] parsed[1] = "Loop" ->
                   call' = [call EXCEPT ![c].pc = "xml_loop"]
              [] parsed[1] = "Fetch" ->
                   call' = [call EXCEPT ![c] =
                              [EnterExec("download", "", parsed[2], 2, call[c].sent)
                                 EXCEPT !.doc = Some(ret[2].body)]]
    /\ UNCHANGED <<not_legacy, overlap, kind, credentials, client, creator, ctor_requests, csrf_token, csrf_lock>>

\* the bytes of the response are returned: the second response of
\* LegacyClient::download_image, the only one of RobloxApiClient::download_image
DownloadImageReturn(c) ==
    /\ call[c].pc = "exec_ret"
    /\ call[c].op = "download"
    /\ kind = "LegacyClient" => call[c].stage = 2
    /\ LET ret == Unwrap(call[c].ret) IN
       IF ret[1] = "Err"
       THEN call' = [call EXCEPT ![c].result = Some(ret), ![c].pc = "done"]
       ELSE call' = [call EXCEPT ![c].result = Some(<<"Ok", ret[2].body>>),
                                 ![c].pc = "done"]
    /\ UNCHANGED <<not_legacy, overlap, kind, credentials, client, creator, ctor_requests, csrf_token, csrf_lock>>

\* the caller has taken the result; the slot is free for the next call
Drop(c) ==
    /\ call[c].pc = "done"
    /\ call' = [call EXCEPT ![c] = NoCall]
    /\ UNCHANGED <<not_legacy, overlap, kind, credentials, client, creator, ctor_requests, csrf_token, csrf_lock>>

LegacyNext ==
    \/ LegacyClientNew
    \/ RobloxApiClientNew
    \/ \E c \in Calls :
         \/ UploadImageCall(c)
         \/ UploadImageWithModerationRetryCall(c)
         \/ DownloadImageCall(c)
         \/ ExecAttach(c)
         \/ ExecSend(c)
         \/ ExecRefresh(c)
         \/ ExecAttachRetry(c)
         \/ ExecSendRetry(c)
         \/ UploadImageReturn(c)
         \/ ModerationReturn(c)
         \/ DownloadImageParse(c)
         \/ DownloadImageReturn(c)
         \/ Drop(c)


(***************************************************************************)
(* Backend selection: get_preferred_client and OpenCloudClient::new.       *)
(***************************************************************************)
\* OpenCloudClient::new: the creator from (group_id, user_id), then the key
OpenCloudClientNew(cr) ==
    CASE IsSome(cr.group_id) /\ ~IsSome(cr.user_id) ->
            IF IsSome(cr.api_key)
            THEN <<"Ok", "OpenCloudClient", <<"Group", Unwrap(cr.group_id)>> >>
            ELSE <<"Err", "MissingAuth">>
      [] ~IsSome(cr.group_id) /\ IsSome(cr.user_id) ->
            IF IsSome(cr.api_key)
            THEN <<"Ok", "OpenCloudClient", <<"User", Unwrap(cr.user_id)>> >>
            ELSE <<"Err", "MissingAuth">>
      [] OTHER -> <<"Panic", "internal error: entered unreachable code">>

\* get_preferred_client: the arms of its match, in order
GetPreferredClient(cr) ==
    CASE ~IsSome(cr.token) /\ ~IsSome(cr.api_key) -> <<"Err", "MissingAuth">>
      [] (IsSome(cr.token) \/ IsSome(cr.api_key))
         /\ IsSome(cr.group_id) /\ IsSome(cr.user_id) -> <<"Err", "AmbiguousCreatorType">>
      [] IsSome(cr.api_key) /\ ~(IsSome(cr.group_id) /\ IsSome(cr.user_id)) ->
            OpenCloudClientNew(cr)
      [] OTHER -> <<"Panic", "not yet implemented">>

GetPreferredClientCall ==
    /\ selected = None
    /\ selected' = Some(GetPreferredClient(input))
    /\ UNCHANGED <<not_cloud, input, oc>>

(***************************************************************************)
(* OpenCloudClient: upload_image_inner is create, then poll.               *)
(***************************************************************************)
MAX_RETRIES == 5
INITIAL_SLEEP_DURATION == 50
BACKOFF == 2

RECURSIVE Pow(_, _)
Pow(base, exp) == IF exp = 0 THEN 1 ELSE base * Pow(base, exp - 1)

\* the operation paths a create answer may carry (response.path)
OperationPaths ==
    { None, Some(<<"operations/", "op1">>), Some(<<"operations/">>),
      Some(<<"assets/", "op1">>), Some(<<"op1">>) }

\* str::strip_prefix("operations/")
StripPrefix(text) ==
    IF text # <<>> /\ text[1] = "operations/" THEN Some(Tail(text)) ELSE None

\* the asset ids a finished operation may carry (response.asset_id)
AssetIdTexts == { <<"5">>, <<"4", "2">>, <<"4", "x">>, <<>> }

NoUpload ==
    [pc |-> "idle", op |-> "none", path |-> None, operation_id |-> None, retry_count |-> 0,
     creates |-> 0, polls |-> 0, in_progress |-> 0, slept |-> <<>>, terminal |-> None,
     result |-> None]

OpenCloudReady ==
    /\ selected # None
    /\ Unwrap(selected)[1] = "Ok"
    /\ Unwrap(selected)[2] = "OpenCloudClient"

\* OpenCloudClient::upload_image is called
OcUploadImage ==
    /\ OpenCloudReady
    /\ oc.pc = "idle"
    /\ oc' = [NoUpload EXCEPT !.pc = "create", !.op = "upload"]
    /\ UNCHANGED <<not_cloud, input, selected>>

\* self.assets.create_with_contents(&asset_info).await?, then the path
OperationIdOf(path) ==
    IF ~IsSome(path)
    THEN <<"Err", "MissingOperationPath">>
    ELSE IF ~IsSome(StripPrefix(Unwrap(path)))
         THEN <<"Err", "MissingOperationPath">>
         ELSE <<"Ok", Unwrap(StripPrefix(Unwrap(path)))>>

OcCreate ==
    /\ oc.pc = "create"
    /\ \/ oc' = [oc EXCEPT !.creates = @ + 1, !.result = Some(<<"Err", "RbxCloud">>),
                           !.pc = "done"]
       \/ \E path \in OperationPaths :
            LET id == OperationIdOf(path) IN
            IF id[1] = "Err"
            THEN oc' = [oc EXCEPT !.creates = @ + 1, !.path = Some(path),
                                  !.result = Some(id), !.pc = "done"]
            ELSE oc' = [oc EXCEPT !.creates = @ + 1, !.path = Some(path),
                                  !.operation_id = Some(id[2]), !.pc = "poll"]
    /\ UNCHANGED <<not_cloud, input, selected>>

\* (mutant) the wait grows with the retry count, not with its square
SleepDurationLinear(retry_count) == INITIAL_SLEEP_DURATION * retry_count

\* the sleep before the next poll, for the retry count after its increment
SleepDuration(retry_count) == INITIAL_SLEEP_DURATION * Pow(retry_count, BACKOFF)

\* (mutant) the polling gives up at the second in-progress answer
RetriesExhaustedEarly(retry_count) == retry_count >= 1

\* whether an in-progress answer ends the polling
RetriesExhausted(retry_count) == retry_count > MAX_RETRIES

\* (mutant) the backing asset id is left at zero
UploadResponseNoBacking(asset_id) == <<"Ok", asset_id, 0>>

\* Ok(UploadResponse { asset_id, backing_asset_id: asset_id })
UploadResponse(asset_id) == <<"Ok", asset_id, asset_id>>

\* one turn of the loop: self.assets.get(&operation).await?
OcPoll ==
    /\ oc.pc = "poll"
    /\ \/ \* the request fails
          oc' = [oc EXCEPT !.polls = @ + 1, !.result = Some(<<"Err", "RbxCloud">>),
                           !.pc = "done"]
       \/ \* res.response is None: the operation is still in progress
          IF RetriesExhausted(oc.retry_count)
          THEN oc' = [oc EXCEPT !.polls = @ + 1, !.in_progress = @ + 1,
                                !.result = Some(<<"Err", "AssetGetFailed">>),
                                !.pc = "done"]
          ELSE oc' = [oc EXCEPT !.polls = @ + 1, !.in_progress = @ + 1,
                                !.retry_count = @ + 1,
                                !.slept = Append(@, SleepDuration(oc.retry_count + 1)),
                                !.pc = "sleep"]
       \/ \* the operation is done and carries an asset id
          \E text \in AssetIdTexts :
            IF IsSome(U64FromStr(text))
            THEN oc' = [oc EXCEPT !.polls = @ + 1, !.terminal = Some(text),
                                  !.result = Some(UploadResponse(Unwrap(U64FromStr(text)))),
                                  !.pc = "done"]
            ELSE oc' = [oc EXCEPT !.polls = @ + 1, !.terminal = Some(text),
                                  !.result = Some(<<"Err", "AssetGetFailed">>),
                                  !.pc = "done"]
    /\ UNCHANGED <<not_cloud, input, selected>>

\* std::thread::sleep returns; the loop continues
OcWake ==
    /\ oc.pc = "sleep"
    /\ oc' = [oc EXCEPT !.pc = "poll"]
    /\ UNCHANGED <<not_cloud, input, selected>>

\* OpenCloudClient::download_image
OcDownloadImage ==
    /\ OpenCloudReady
    /\ oc.pc = "idle"
    /\ \E id \in DownloadIds :
         oc' = [NoUpload EXCEPT !.op = "download",
                                !.result = Some(<<"Panic", "not yet implemented">>),
                                !.pc = "done"]
    /\ UNCHANGED <<not_cloud, input, selected>>

\* the caller has taken the result
OcDrop ==
    /\ oc.pc = "done"
    /\ Unwrap(oc.result)[1] # "Panic"
    /\ oc' = NoUpload
    /\ UNCHANGED <<not_cloud, input, selected>>

CloudNext ==
    \/ GetPreferredClientCall
    \/ OcUploadImage
    \/ OcCreate
    \/ OcPoll
    \/ OcWake
    \/ OcDownloadImage
    \/ OcDrop

(***************************************************************************)
(* main.rs: tokio::select! over run(options) and signal::ctrl_c().  Both   *)
(* futures belong to the one task of main: the ctrl_c branch is polled     *)
(* when that task is, which is when run is pending at an await.  Here run  *)
(* is an upload by the Open Cloud client.                                  *)
(***************************************************************************)
\* run is pending at an await: a request of the upload is in flight
AtAwait == oc.pc \in {"create", "poll"}

\* the user interrupts the process while the upload is under way
Interrupt ==
    /\ sig = "none"
    /\ oc.pc \in {"create", "poll", "sleep"}
    /\ sig' = "pending"
    /\ UNCHANGED <<legacy_vars, cloud_vars, cm, ui, main, al>>

\* _ = signal::ctrl_c() => process::exit(0): the upload ends with the process
CtrlC ==
    /\ sig = "pending"
    /\ AtAwait
    /\ sig' = "exited"
    /\ oc' = [oc EXCEPT !.pc = "exited"]
    /\ UNCHANGED <<legacy_vars, input, selected, cm, ui, main, al>>

RuntimeNext ==
    \/ GetPreferredClientCall
    \/ OcUploadImage
    \/ OcCreate
    \/ OcPoll
    \/ OcWake
    \/ OcDrop
    \/ Interrupt
    \/ CtrlC

(***************************************************************************)
(* The cache-map builder: create_cache_map from the grouping of the        *)
(* manifest's inputs to the writing of the index file, run with a client   *)
(* (dyn RobloxApiClient) whose download_image returns Ok(bytes) or Err.    *)
(***************************************************************************)
MaxInputs == 4

\* AssetName: the normalized path of an input; the manifest's BTreeMap orders by it
AssetName(path) == <<"AssetName", path>>
AssetNames == <<AssetName("helmet.png"), AssetName("shield.png"), AssetName("sword.png"),
                AssetName("torch.png"), AssetName("wand.png")>>
RemoteIds == {7, 42}

\* Display for AssetName is its path; a text is a sequence of symbols
AssetNameToString(name) == <<name[2]>>

\* u64 Display: decimal digits, most significant first
Digit(n) ==
    CASE n = 0 -> "0" [] n = 1 -> "1" [] n = 2 -> "2" [] n = 3 -> "3" [] n = 4 -> "4"
      [] n = 5 -> "5" [] n = 6 -> "6" [] n = 7 -> "7" [] n = 8 -> "8" [] n = 9 -> "9"
Decimal(n) == IF n < 10 THEN <<Digit(n)>> ELSE <<Digit(n \div 10), Digit(n % 10)>>

\* manifest.inputs in key order: InputManifest.id is Option<u64>
Manifests ==
    { [i \in 1..MaxInputs |-> [name |-> AssetNames[i], id |-> ids[i]]] :
        ids \in [1..MaxInputs -> {None} \cup {Some(id) : id \in RemoteIds}] }

\* options.cache_dir joined with a file name, and its display
cache_dir == "/tmp/c"
Join(dir, file) == [dir |-> dir, file |-> file]
Display(path) == <<path.dir, "/">> \o path.file

\* the Vec pushed for one id while the inputs are walked in key order
RECURSIVE Contributing(_, _, _)
Contributing(inputs, id, i) ==
    IF i > Len(inputs)
    THEN <<>>
    ELSE (IF inputs[i].id = Some(id) THEN <<inputs[i].name>> ELSE <<>>)
            \o Contributing(inputs, id, i + 1)

\* (mutant) an entry without an id is grouped under id 0
UploadedInputsDefaultId(inputs) ==
    LET without == SelectSeq(inputs, LAMBDA e : e.id = None) IN
    [id \in {IF IsSome(inputs[i].id) THEN inputs[i].id[1] ELSE 0 : i \in 1..Len(inputs)} |->
        IF id = 0
        THEN [k \in 1..Len(without) |-> without[k].name]
        ELSE Contributing(inputs, id, 1)]

\* uploaded_inputs: BTreeMap<u64, Vec<&AssetName>>
UploadedInputs(inputs) ==
    [id \in {inputs[i].id[1] : i \in {k \in 1..Len(inputs) : IsSome(inputs[k].id)}} |->
        Contributing(inputs, id, 1)]

\* serde_json of BTreeMap<u64, String>: an object keyed by the decimal id
ToJson(index) == {<<Decimal(id), index[id]>> : id \in DOMAIN index}

EmptyMap == [id \in {} |-> <<>>]
Insert(map, key, value) == [k \in DOMAIN map \cup {key} |-> IF k = key THEN value ELSE map[k]]

ImageBytes == {"PNG-A", "PNG-B"}
DownloadOutcomes == {<<"Ok", b>> : b \in ImageBytes} \cup {<<"Err", "ResponseError">>}

\* an index file left by an earlier run
OldIndex == <<"complete", {<<Decimal(9), <<"old.png">>>>}>>

NoRun ==
    [pc |-> "idle", inputs |-> <<>>, uploaded_inputs |-> EmptyMap, todo |-> {},
     index |-> EmptyMap, downloads |-> <<>>, files |-> EmptyMap,
     before |-> None, index_file |-> None, result |-> None]

\* (mutant) every id is fetched, a sole contributor's too
NeverSole(contributing_assets) == FALSE

\* contributing_assets.len() == 1
Sole(contributing_assets) == Len(contributing_assets) = 1

\* (mutant) a failed download is taken for its bytes and the run goes on
TryAnyway(outcome) == TRUE

\* the ? operator on a Result: Ok goes on, Err returns
Try(outcome) == outcome[1] = "Ok"

\* lines 55-63: group the inputs that have an id; the index starts empty
CmGroup ==
    /\ cm.pc = "start"
    /\ cm' = [cm EXCEPT !.pc = "loop",
                        !.uploaded_inputs = UploadedInputs(cm.inputs),
                        !.todo = DOMAIN UploadedInputs(cm.inputs),
                        !.index = EmptyMap]
    /\ UNCHANGED not_cache

\* lines 64-66: the next id in key order has one contributor
CmInsertSole ==
    /\ cm.pc = "loop"
    /\ cm.todo # {}
    /\ LET id == Least(cm.todo)
           contributing_assets == cm.uploaded_inputs[id] IN
       /\ Sole(contributing_assets)
       /\ cm' = [cm EXCEPT !.todo = @ \ {id},
                           !.index = Insert(@, id, AssetNameToString(contributing_assets[1]))]
    /\ UNCHANGED not_cache

\* lines 64, 67-73: the next id is shared: download, store, insert the path
CmDownloadShared ==
    /\ cm.pc = "loop"
    /\ cm.todo # {}
    /\ LET id == Least(cm.todo)
           contributing_assets == cm.uploaded_inputs[id]
           path == Join(cache_dir, Decimal(id)) IN
       /\ ~Sole(contributing_assets)
       /\ \E outcome \in DownloadOutcomes, written \in BOOLEAN :
            LET called == Append(cm.downloads, [id |-> id, outcome |-> outcome]) IN
            IF ~Try(outcome)
            THEN cm' = [cm EXCEPT !.pc = "done", !.downloads = called,
                                  !.result = Some(outcome)]
            ELSE IF ~written
                 THEN cm' = [cm EXCEPT !.pc = "done", !.downloads = called,
                                       !.result = Some(<<"Err", "io">>)]
                 ELSE cm' = [cm EXCEPT !.todo = @ \ {id},
                                       !.downloads = called,
                                       !.files = Insert(@, path, outcome[2]),
                                       !.index = Insert(@, id, Display(path))]
    /\ UNCHANGED not_cache

\* lines 76-80: create the index file, serialize the index into it, flush
CmWriteIndex ==
    /\ cm.pc = "loop"
    /\ cm.todo = {}
    /\ \E io \in {"create fails", "write fails", "ok"} :
         CASE io = "create fails" ->
                cm' = [cm EXCEPT !.pc = "done", !.result = Some(<<"Err", "io">>)]
           [] io = "write fails" ->
                cm' = [cm EXCEPT !.pc = "done", !.result = Some(<<"Err", "io">>),
                                 !.index_file = Some(<<"truncated", {}>>)]
           [] io = "ok" ->
                cm' = [cm EXCEPT !.pc = "done", !.result = Some(<<"Ok">>),
                                 !.index_file = Some(<<"complete", ToJson(cm.index)>>)]
    /\ UNCHANGED not_cache

CacheMapNext ==
    \/ CmGroup
    \/ CmInsertSole
    \/ CmDownloadShared
    \/ CmWriteIndex

(***************************************************************************)
(* The asset-list command (commands/asset_list.rs).                        *)
(***************************************************************************)
\* (mutant) a Vec in place of the set: every id is pushed where the walk meets it
BTreeSetInsertPush(set, id) == Append(set, id)

\* BTreeSet<u64>::insert: the set is the sequence of its elements in ascending
\* order; an id already present is not inserted again
BTreeSetInsert(set, id) ==
    IF \E k \in 1..Len(set) : set[k] = id
    THEN set
    ELSE SelectSeq(set, LAMBDA x : x < id) \o <<id>> \o SelectSeq(set, LAMBDA x : x > id)

NoList ==
    [pc |-> "idle", inputs |-> <<>>, i |-> 0, asset_list |-> <<>>, todo |-> <<>>,
     file |-> None, result |-> None]

\* Manifest::read_from_folder(&project_path)?
AlRead ==
    /\ al.pc = "start"
    /\ \/ al' = [al EXCEPT !.pc = "done", !.result = Some(<<"Err", "ManifestError">>)]
       \/ al' = [al EXCEPT !.pc = "collect", !.i = 1]
    /\ UNCHANGED not_list

\* one turn of the loop over manifest.inputs.values()
AlInsert ==
    /\ al.pc = "collect"
    /\ al.i <= Len(al.inputs)
    /\ al' = [al EXCEPT !.i = @ + 1,
                        !.asset_list = IF IsSome(al.inputs[al.i].id)
                                       THEN BTreeSetInsert(@, Unwrap(al.inputs[al.i].id))
                                       ELSE @]
    /\ UNCHANGED not_list

\* BufWriter::new(fs::File::create(&options.output)?): the file is emptied
AlCreate ==
    /\ al.pc = "collect"
    /\ al.i > Len(al.inputs)
    /\ \/ al' = [al EXCEPT !.pc = "done", !.result = Some(<<"Err", "Io">>)]
       \/ al' = [al EXCEPT !.pc = "write", !.file = Some(<<>>), !.todo = al.asset_list]
    /\ UNCHANGED not_list

\* writeln!(file, "{}", id)? for the next id of the set: one line
AlWrite ==
    /\ al.pc = "write"
    /\ al.todo # <<>>
    /\ \/ al' = [al EXCEPT !.pc = "done", !.result = Some(<<"Err", "Io">>)]
       \/ al' = [al EXCEPT !.file = Some(Append(Unwrap(@), Decimal(Head(al.todo)))),
                           !.todo = Tail(@)]
    /\ UNCHANGED not_list

\* file.flush()?; Ok(())
AlFlush ==
    /\ al.pc = "write"
    /\ al.todo = <<>>
    /\ \/ al' = [al EXCEPT !.pc = "done", !.result = Some(<<"Err", "Io">>)]
       \/ al' = [al EXCEPT !.pc = "done", !.result = Some(<<"Ok">>)]
    /\ UNCHANGED not_list

AssetListNext ==
    \/ AlRead
    \/ AlInsert
    \/ AlCreate
    \/ AlWrite
    \/ AlFlush

(***************************************************************************)
(* main.rs: run(options) for the sync command, and what main does with     *)
(* its result.  The environment of a run is how many times in a row the    *)
(* server answers an upload of the project's asset with a rate-limit error.*)
(***************************************************************************)
MaxRetry == 2

\* SyncOptions: --target, --retry (Option<usize>), --retry-delay (seconds)
SyncTargets == {"Roblox", "None", "Debug", "Local"}
RetryOptions == {None} \cup {Some(n) : n \in 0..MaxRetry}
RetryDelays == {1, 60}

\* the commands of run modelled here, and where a session cookie may come
\* from: --auth, or get_auth_cookie() reading the Studio installation
MainCommands == {"Sync", "CreateCacheMap", "DownloadImage"}

NoMain ==
    [pc |-> "idle", command |-> "Sync",
     target |-> "Roblox", retry |-> None, retry_delay |-> 60,
     rate_limited |-> 0, attempts |-> 0, slept |-> <<>>,
     auth |-> None, studio_cookie |-> None, api_key |-> None,
     client |-> None, effects |-> <<>>,
     result |-> None, exit |-> None]

\* Command::Sync(_) => Err(anyhow!("unfinished")): the options are not read
\* and commands::sync is not called
RunSync ==
    /\ main.pc = "run"
    /\ main.command = "Sync"
    /\ main' = [main EXCEPT !.pc = "returned", !.result = Some(<<"Err", "unfinished">>)]
    /\ UNCHANGED not_main

\* global.auth.or_else(get_auth_cookie), api_key: None, user_id: None,
\* group_id: None: the credentials of create_cache_map and download_image
CookieCredentials(auth, studio_cookie) ==
    [token |-> IF IsSome(auth) THEN auth ELSE studio_cookie,
     api_key |-> None, user_id |-> None, group_id |-> None]

\* the head of a command that begins with get_preferred_client(..)?: an Err
\* is returned, a panic unwinds out of run, a client lets the command go on
WithPreferredClient ==
    LET got == GetPreferredClient(CookieCredentials(main.auth, main.studio_cookie)) IN
    IF got[1] = "Ok"
    THEN [main EXCEPT !.pc = "client", !.client = Some(got[2])]
    ELSE [main EXCEPT !.pc = "returned", !.result = Some(got)]

\* Command::CreateCacheMap: commands::create_cache_map up to its client
RunCreateCacheMap ==
    /\ main.pc = "run"
    /\ main.command = "CreateCacheMap"
    /\ main' = WithPreferredClient
    /\ UNCHANGED not_main

\* Command::DownloadImage: commands::download_image up to its client
RunDownloadImage ==
    /\ main.pc = "run"
    /\ main.command = "DownloadImage"
    /\ main' = WithPreferredClient
    /\ UNCHANGED not_main

\* main: an Err is logged and the process exits with status 1; a panic runs
\* the panic hook, which exits with status 1 as well
MainExit ==
    /\ main.pc = "returned"
    /\ main' = [main EXCEPT !.pc = "exited",
                            !.exit = Some(IF Unwrap(main.result)[1] \in {"Err", "Panic"}
                                          THEN 1 ELSE 0)]
    /\ UNCHANGED not_main

MainNext ==
    \/ RunSync
    \/ RunCreateCacheMap
    \/ RunDownloadImage
    \/ MainExit

(***************************************************************************)
(* The upload-image command (commands/upload_image.rs).  An image is its   *)
(* dimensions and whether alpha_bleed has run on it; steps is the list of  *)
(* the operations the command has performed, in order.                     *)
(***************************************************************************)
\* the credentials the command line can give: an id requires an API key and
\* the two ids exclude each other (clap); the cookie may come from Studio
UploadImageCredentials ==
    { cr \in RobloxCredentials :
        /\ ~(IsSome(cr.user_id) /\ IsSome(cr.group_id))
        /\ (IsSome(cr.user_id) \/ IsSome(cr.group_id)) => IsSome(cr.api_key) }

\* options.resize
ResizeOptions == {None, Some(<<32, 16>>)}

\* image::load_from_memory of the file's bytes
FileDimensions == <<64, 64>>
Image(dimensions, bled) == [dimensions |-> dimensions, bled |-> bled]

NoCredentials == [token |-> None, api_key |-> None, user_id |-> None, group_id |-> None]

NoCommand ==
    [pc |-> "idle", credentials |-> NoCredentials, resize |-> None, img |-> None,
     encoded_image |-> None, client |-> None, steps |-> <<>>, result |-> None]

Step(name) == [ui EXCEPT !.steps = Append(@, name)]

\* let image_data = fs::read(options.path)?
UiRead ==
    /\ ui.pc = "read"
    /\ \E ok \in BOOLEAN :
         ui' = IF ok
               THEN [Step("read") EXCEPT !.pc = "decode"]
               ELSE [Step("read") EXCEPT !.pc = "done", !.result = Some(<<"Err", "io">>)]
    /\ UNCHANGED not_upload

\* (mutant) the resize is left for after the alpha bleed
AfterDecodeBleedFirst(resize) == "alpha_bleed"

\* match options.resize: with Some the decoded image is resized next
AfterDecode(resize) == IF IsSome(resize) THEN "resize" ELSE "alpha_bleed"

\* image::load_from_memory(&image_data)?
UiDecode ==
    /\ ui.pc = "decode"
    /\ \E ok \in BOOLEAN :
         ui' = IF ok
               THEN [Step("decode") EXCEPT !.pc = AfterDecode(ui.resize),
                                           !.img = Some(Image(FileDimensions, FALSE))]
               ELSE [Step("decode") EXCEPT !.pc = "done",
                                           !.result = Some(<<"Err", "ImageError">>)]
    /\ UNCHANGED not_upload

\* resize(&img, width, height, FilterType::Gaussian)
UiResize ==
    /\ ui.pc = "resize"
    /\ ui' = [Step("resize") EXCEPT !.pc = "alpha_bleed",
                                    !.img = Some(Image(Unwrap(ui.resize), Unwrap(ui.img).bled))]
    /\ UNCHANGED not_upload

\* alpha_bleed(&mut img)
UiAlphaBleed ==
    /\ ui.pc = "alpha_bleed"
    /\ ui' = [Step("alpha_bleed") EXCEPT !.pc = "encode",
                                         !.img = Some(Image(Unwrap(ui.img).dimensions, TRUE))]
    /\ UNCHANGED not_upload

\* PngEncoder::new(&mut encoded_image).encode(..)?
UiEncode ==
    /\ ui.pc = "encode"
    /\ \E ok \in BOOLEAN :
         ui' = IF ok
               THEN [Step("encode") EXCEPT !.pc = "client",
                                           !.encoded_image = Some(<<"png", Unwrap(ui.img)>>)]
               ELSE [Step("encode") EXCEPT !.pc = "done",
                                           !.result = Some(<<"Err", "ImageError">>)]
    /\ UNCHANGED not_upload

\* let client = get_preferred_client(RobloxCredentials { .. })?
UiClient ==
    /\ ui.pc = "client"
    /\ LET got == GetPreferredClient(ui.credentials) IN
       ui' = IF got[1] = "Ok"
             THEN [Step("client") EXCEPT !.pc = "upload", !.client = Some(got)]
             ELSE [Step("client") EXCEPT !.pc = "done", !.result = Some(got)]
    /\ UNCHANGED not_upload

\* let response = client.upload_image(upload_data).await?
UiUpload ==
    /\ ui.pc = "upload"
    /\ \E response \in {<<"Ok", 5, 5>>, <<"Err", "AssetGetFailed">>, <<"Err", "RbxCloud">>} :
         ui' = [Step("upload") EXCEPT !.pc = "done",
                                      !.result = Some(IF response[1] = "Ok"
                                                      THEN <<"Ok">> ELSE response)]
    /\ UNCHANGED not_upload

UploadImageNext ==
    \/ UiRead
    \/ UiDecode
    \/ UiResize
    \/ UiAlphaBleed
    \/ UiEncode
    \/ UiClient
    \/ UiUpload


vars == <<legacy_vars, cloud_vars, cm, ui, main, sig, al>>

\* backend selection and the Open Cloud client: the credentials are the input
Init ==
    /\ input \in RobloxCredentials
    /\ selected = None
    /\ oc = NoUpload
    /\ kind = "LegacyClient"
    /\ credentials = NoCredentials
    /\ client = "none"
    /\ creator = None
    /\ ctor_requests = 0
    /\ csrf_token = None
    /\ csrf_lock = 0
    /\ call = [c \in Calls |-> NoCall]
    /\ overlap = FALSE
    /\ sig = "none"
    /\ al = NoList
    /\ ui = NoCommand
    /\ main = NoMain
    /\ cm = NoRun

Spec == Init /\ [][CloudNext]_vars

\* an upload by the Open Cloud client under main's select
RuntimeInit ==
    /\ input \in RobloxCredentials
    /\ selected = None
    /\ oc = NoUpload
    /\ sig = "none"
    /\ al = NoList
    /\ kind = "LegacyClient"
    /\ credentials = NoCredentials
    /\ client = "none"
    /\ creator = None
    /\ ctor_requests = 0
    /\ csrf_token = None
    /\ csrf_lock = 0
    /\ call = [c \in Calls |-> NoCall]
    /\ overlap = FALSE
    /\ ui = NoCommand
    /\ main = NoMain
    /\ cm = NoRun

SpecRuntime == RuntimeInit /\ [][RuntimeNext]_vars

\* the cookie+CSRF client on its own: the client type and its credentials are
\* the input (the legacy backend is the one without an API key)
LegacyInit ==
    /\ kind \in {"LegacyClient", "RobloxApiClient"}
    /\ credentials \in RobloxCredentials
    /\ kind = "LegacyClient" => credentials.api_key = None
    /\ client = "none"
    /\ creator = None
    /\ ctor_requests = 0
    /\ csrf_token = None
    /\ csrf_lock = 0
    /\ call = [c \in Calls |-> NoCall]
    /\ overlap = FALSE
    /\ sig = "none"
    /\ al = NoList
    /\ ui = NoCommand
    /\ main = NoMain
    /\ input = NoCredentials
    /\ selected = None
    /\ oc = NoUpload
    /\ cm = NoRun

SpecLegacy == LegacyInit /\ [][LegacyNext]_vars

\* the same clients with a caller that lets the calls on a LegacyClient overlap
ConcurrentInit ==
    /\ kind \in {"LegacyClient", "RobloxApiClient"}
    /\ credentials \in RobloxCredentials
    /\ kind = "LegacyClient" => credentials.api_key = None
    /\ client = "none"
    /\ creator = None
    /\ ctor_requests = 0
    /\ csrf_token = None
    /\ csrf_lock = 0
    /\ call = [c \in Calls |-> NoCall]
    /\ overlap = TRUE
    /\ sig = "none"
    /\ al = NoList
    /\ ui = NoCommand
    /\ main = NoMain
    /\ input = NoCredentials
    /\ selected = None
    /\ oc = NoUpload
    /\ cm = NoRun

SpecConcurrent == ConcurrentInit /\ [][LegacyNext]_vars

\* the cache-map builder on its own: the manifest and the index file of an
\* earlier run, if any, are the input
CacheMapInit ==
    /\ \E inputs \in Manifests, before \in {None, Some(OldIndex)} :
         cm = [NoRun EXCEPT !.pc = "start", !.inputs = inputs,
                            !.before = before, !.index_file = before]
    /\ kind = "LegacyClient"
    /\ credentials = NoCredentials
    /\ client = "none"
    /\ creator = None
    /\ ctor_requests = 0
    /\ csrf_token = None
    /\ csrf_lock = 0
    /\ call = [c \in Calls |-> NoCall]
    /\ overlap = FALSE
    /\ sig = "none"
    /\ al = NoList
    /\ ui = NoCommand
    /\ main = NoMain
    /\ input = NoCredentials
    /\ selected = None
    /\ oc = NoUpload

SpecCacheMap == CacheMapInit /\ [][CacheMapNext]_vars

\* the upload-image command on its own: the credentials and --resize are the input
UploadImageInit ==
    /\ \E cr \in UploadImageCredentials, resize \in ResizeOptions :
         ui = [NoCommand EXCEPT !.pc = "read", !.credentials = cr, !.resize = resize]
    /\ kind = "LegacyClient"
    /\ credentials = NoCredentials
    /\ client = "none"
    /\ creator = None
    /\ ctor_requests = 0
    /\ csrf_token = None
    /\ csrf_lock = 0
    /\ call = [c \in Calls |-> NoCall]
    /\ overlap = FALSE
    /\ sig = "none"
    /\ al = NoList
    /\ input = NoCredentials
    /\ selected = None
    /\ oc = NoUpload
    /\ cm = NoRun
    /\ main = NoMain

SpecUploadImage == UploadImageInit /\ [][UploadImageNext]_vars

\* the sync command on its own: its options and the server's rate limiting
\* are the input
MainInit ==
    /\ \E command \in MainCommands,
          target \in SyncTargets, retry \in RetryOptions, retry_delay \in RetryDelays,
          rate_limited \in 0..(MaxRetry + 1),
          auth \in CookieValues, studio_cookie \in CookieValues, api_key \in ApiKeyValues :
         \* --auth conflicts with --api-key; the sync options belong to sync
         /\ ~(IsSome(auth) /\ IsSome(api_key))
         /\ command # "Sync" =>
               target = "Roblox" /\ retry = None /\ retry_delay = 60 /\ rate_limited = 0
         /\ main = [NoMain EXCEPT !.pc = "run", !.command = command,
                                  !.target = target, !.retry = retry,
                                  !.retry_delay = retry_delay, !.rate_limited = rate_limited,
                                  !.auth = auth, !.studio_cookie = studio_cookie,
                                  !.api_key = api_key]
    /\ kind = "LegacyClient"
    /\ credentials = NoCredentials
    /\ client = "none"
    /\ creator = None
    /\ ctor_requests = 0
    /\ csrf_token = None
    /\ csrf_lock = 0
    /\ call = [c \in Calls |-> NoCall]
    /\ overlap = FALSE
    /\ sig = "none"
    /\ al = NoList
    /\ input = NoCredentials
    /\ selected = None
    /\ oc = NoUpload
    /\ cm = NoRun
    /\ ui = NoCommand

SpecMain == MainInit /\ [][MainNext]_vars

\* the asset-list command on its own: the manifest is the input
AssetListInit ==
    /\ \E inputs \in Manifests : al = [NoList EXCEPT !.pc = "start", !.inputs = inputs]
    /\ kind = "LegacyClient"
    /\ credentials = NoCredentials
    /\ client = "none"
    /\ creator = None
    /\ ctor_requests = 0
    /\ csrf_token = None
    /\ csrf_lock = 0
    /\ call = [c \in Calls |-> NoCall]
    /\ overlap = FALSE
    /\ sig = "none"
    /\ input = NoCredentials
    /\ selected = None
    /\ oc = NoUpload
    /\ cm = NoRun
    /\ ui = NoCommand
    /\ main = NoMain

SpecAssetList == AssetListInit /\ [][AssetListNext]_vars

(***************************************************************************)
(* Properties of the cookie+CSRF client.                                   *)
(***************************************************************************)
\* the call waits for the read lock of attach_headers while it holds the
\* write guard itself: nothing can release the guard, so it waits for ever
SelfBlocked(c) == call[c].pc = "exec_attach_retry" /\ csrf_lock = c

RefreshedCall(c) == IsSome(call[c].first) /\ NeedsRefresh(Unwrap(call[c].first))

\* execute_with_csrf_retry has returned a response or an error
ExecReturned(c) == call[c].pc = "exec_ret"

\* C1: when the first response is 403 with an X-CSRF-Token header, exactly one
\* further request is sent, it carries the token of the 403 response, and its
\* response is returned whatever its status (a second 403 included): the call
\* never stops short of the retried request, and has sent two requests when
\* it returns.
C1_SingleRetry ==
    \A c \in Calls :
        RefreshedCall(c) =>
            /\ ~SelfBlocked(c)
            /\ ExecReturned(c) =>
                 /\ call[c].tries = 2
                 /\ call[c].sent[Len(call[c].sent)].csrf = Unwrap(call[c].first).csrf
                 /\ LET ret == Unwrap(call[c].ret) IN
                      ret[1] = "Ok" => HeadOf(ret[2]) = Unwrap(call[c].last)

\* the same statement, of the old client alone (it holds there)
SingleRetryOld == kind = "RobloxApiClient" => C1_SingleRetry

\* a finished upload_image, called on its own, and the response
\* execute_with_csrf_retry returned to it
UploadDone(c) ==
    /\ call[c].op = "upload"
    /\ ~call[c].moderated
    /\ call[c].pc = "done"
    /\ Unwrap(call[c].ret)[1] = "Ok"

FinalResponse(c) == Unwrap(call[c].ret)[2]
Result(c) == Unwrap(call[c].result)

\* C3: construction fails with MissingAuth when neither a cookie nor an API key
\* is present, and with AmbiguousCreatorType when both ids are present (and
\* some authentication is); no client is produced and no network request is
\* made.  Stated of RobloxApiClient::new.
C3_ConstructionFailsCleanly ==
    (kind = "RobloxApiClient" /\ client # "none") =>
        /\ (~IsSome(credentials.token) /\ ~IsSome(credentials.api_key)) =>
              (client = "MissingAuth" /\ ctor_requests = 0)
        /\ ((IsSome(credentials.token) \/ IsSome(credentials.api_key))
            /\ IsSome(credentials.group_id) /\ IsSome(credentials.user_id)) =>
              (client = "AmbiguousCreatorType" /\ ctor_requests = 0)

\* C6: the body's flag decides an upload whose final response is an HTTP
\* success with a body that parses: with the flag true the result is Ok with
\* the body's AssetId and BackingAssetId, with the flag false it is ApiError
\* with the body's Message (bodies that carry the fields named).
C6_BodyFlagDecides ==
    \A c \in Calls :
        (/\ UploadDone(c)
         /\ IsSuccess(FinalResponse(c).status)
         /\ IsSome(FromStr(FinalResponse(c).body))) =>
            LET raw == Unwrap(FromStr(FinalResponse(c).body)) IN
            /\ (raw.success /\ IsSome(raw.asset_id) /\ IsSome(raw.backing_asset_id)) =>
                  Result(c) = <<"Ok", raw.asset_id[1], raw.backing_asset_id[1]>>
            /\ (~raw.success /\ IsSome(raw.message)) =>
                  Result(c) = <<"Err", "ApiError", raw.message[1]>>

\* an HTTP 200 whose body reports a failure has ended in ApiError
C6_Witness ==
    \E c \in Calls :
        /\ kind = "LegacyClient"
        /\ UploadDone(c)
        /\ FinalResponse(c).status = 200
        /\ FinalResponse(c).body = "{Success:false,Message:rate limited}"
        /\ Result(c) = <<"Err", "ApiError", "rate limited">>

\* C7: a final response with a non-success status (a 403 left after the single
\* retry included) gives ResponseError with that status and body; a success
\* status with a body that does not parse gives BadResponseJson with the raw
\* body; neither is retried: the only second request is the CSRF retry.
C7_ClassifiesFinalResponse ==
    \A c \in Calls :
        UploadDone(c) =>
            /\ ~IsSuccess(FinalResponse(c).status) =>
                  Result(c) = <<"Err", "ResponseError", FinalResponse(c).status,
                                FinalResponse(c).body>>
            /\ (IsSuccess(FinalResponse(c).status) /\ ~IsSome(FromStr(FinalResponse(c).body))) =>
                  Result(c) = <<"Err", "BadResponseJson", FinalResponse(c).body>>
            /\ Len(call[c].sent) = IF RefreshedCall(c) THEN 2 ELSE 1

\* a 403 without a token header has ended in ResponseError after one request
C7_Witness ==
    \E c \in Calls :
        /\ kind = "LegacyClient"
        /\ UploadDone(c)
        /\ FinalResponse(c).status = FORBIDDEN
        /\ Result(c)[2] = "ResponseError"
        /\ Len(call[c].sent) = 1

\* C8: a legacy upload whose first response is 403 with a token and whose
\* retried response is a 200 reporting success with ids (a, b) returns
\* Ok(a, b) after exactly two requests: it gets to its retried response, and
\* with that response it ends so.
C8_RetryThenSuccess ==
    \A c \in Calls :
        (kind = "LegacyClient" /\ call[c].op = "upload" /\ RefreshedCall(c)) =>
            /\ ~SelfBlocked(c)
            /\ (/\ UploadDone(c)
                /\ FinalResponse(c).status = 200
                /\ FinalResponse(c).body = "{Success:true,AssetId:5,BackingAssetId:6}") =>
                  (Result(c) = <<"Ok", 5, 6>> /\ Len(call[c].sent) = 2)

\* the indirection document that names asset n, and bytes that are no XML
NamesAsset(body, n) == XmlEvents(body) = UrlDocument(<<ASSET_URL>> \o Decimal(n))
NotXml(body) == XmlEvents(body)[1].ev # "StartDocument"

DownloadDone(c) ==
    /\ kind = "LegacyClient"
    /\ call[c].op = "download"
    /\ call[c].pc = "done"

\* C9: when the first response is <roblox><url>http://www.roblox.com/asset/?id=N
\* the client makes exactly one second download, for id N, and returns its
\* bytes; when the first response is not XML it makes one download and returns
\* the bytes unchanged.  (A download is one execute_with_csrf_retry: one
\* request, or two with the CSRF retry.)
C9_DownloadIndirection ==
    \A c \in Calls :
        DownloadDone(c) =>
            /\ \A n \in 0..99 :
                 (IsSome(call[c].doc) /\ NamesAsset(Unwrap(call[c].doc), n)) =>
                    /\ call[c].stage = 2
                    /\ call[c].arg = n
                    /\ call[c].sent[Len(call[c].sent)].arg = Some(n)
                    /\ Len(call[c].sent) = IF RefreshedCall(c) THEN 3 ELSE 2
                    /\ Unwrap(call[c].ret)[1] = "Ok" =>
                          Result(c) = <<"Ok", FinalResponse(c).body>>
            /\ (~IsSome(call[c].doc) /\ Unwrap(call[c].ret)[1] = "Ok") =>
                 /\ \A n \in 0..99 : ~NamesAsset(FinalResponse(c).body, n)
                 /\ NotXml(FinalResponse(c).body) =>
                       /\ Result(c) = <<"Ok", FinalResponse(c).body>>
                       /\ call[c].stage = 1
                       /\ Len(call[c].sent) = IF RefreshedCall(c) THEN 2 ELSE 1

\* the document named id 7, a second download for 7 was made and its bytes returned
C9_Witness ==
    \E c \in Calls :
        /\ DownloadDone(c)
        /\ call[c].doc = Some("<roblox><url>http://www.roblox.com/asset/?id=7</url></roblox>")
        /\ Len(call[c].sent) = 2
        /\ call[c].sent[1].arg = Some(100)
        /\ call[c].sent[2].arg = Some(7)
        /\ Result(c) = <<"Ok", "PNG-B">>

(***************************************************************************)
(* Properties of the cache-map builder.                                    *)
(***************************************************************************)
\* how many manifest entries carry the id, and how often it was downloaded
Sharing(id) == Cardinality({i \in 1..Len(cm.inputs) : cm.inputs[i].id = Some(id)})
DownloadCalls(id) == {k \in 1..Len(cm.downloads) : cm.downloads[k].id = id}
Entries(id) ==
    IF IsSome(cm.index_file)
    THEN {e \in Unwrap(cm.index_file)[2] : e[1] = Decimal(id)}
    ELSE {}
Succeeded == cm.pc = "done" /\ cm.result = Some(<<"Ok">>)
Stored(id) ==
    /\ Cardinality(DownloadCalls(id)) = 1
    /\ \A k \in DownloadCalls(id) :
         /\ cm.downloads[k].outcome[1] = "Ok"
         /\ Join(cache_dir, Decimal(id)) \in DOMAIN cm.files
         /\ cm.files[Join(cache_dir, Decimal(id))] = cm.downloads[k].outcome[2]

\* C4: after a successful run the index file holds, for each remote id shared
\* by more than one asset name, exactly one entry, whose value is
\* <cache_dir>/<id>, one download call was made for the id and its bytes are
\* in that file; for each id of exactly one asset name the one entry's value
\* is that name and no download call was made.
C4_DedupInvariant ==
    Succeeded =>
        /\ IsSome(cm.index_file) /\ Unwrap(cm.index_file)[1] = "complete"
        /\ \A id \in RemoteIds :
             /\ Sharing(id) > 1 =>
                  /\ Entries(id) = {<<Decimal(id), <<cache_dir, "/">> \o Decimal(id)>>}
                  /\ Stored(id)
             /\ Sharing(id) = 1 =>
                  /\ \E i \in 1..Len(cm.inputs) :
                       /\ cm.inputs[i].id = Some(id)
                       /\ Entries(id) = {<<Decimal(id), <<cm.inputs[i].name[2]>>>>}
                  /\ DownloadCalls(id) = {}

\* scenario A: sword.png and shield.png share 42, helmet.png alone has 7
C4_Witness ==
    /\ Succeeded
    /\ cm.inputs[1] = [name |-> AssetName("helmet.png"), id |-> Some(7)]
    /\ cm.inputs[2] = [name |-> AssetName("shield.png"), id |-> Some(42)]
    /\ cm.inputs[3] = [name |-> AssetName("sword.png"), id |-> Some(42)]
    /\ cm.inputs[4].id = None
    /\ Unwrap(cm.index_file)[2] =
          { <<(<<"4", "2">>), (<<"/tmp/c", "/", "4", "2">>)>>,
            <<(<<"7">>), (<<"helmet.png">>)>> }
    /\ cm.files[Join("/tmp/c", <<"4", "2">>)] = "PNG-A"
    /\ Len(cm.downloads) = 1

FailedDownload == \E k \in 1..Len(cm.downloads) : cm.downloads[k].outcome[1] = "Err"

\* C5: once the download of a shared id has failed the run has ended with an
\* error and the index file is as it was before the run (absent or
\* unmodified); the index file is touched only after every shared id was
\* downloaded and stored.
C5_NoPartialIndex ==
    /\ FailedDownload =>
          /\ cm.pc = "done"
          /\ IsSome(cm.result) /\ Unwrap(cm.result)[1] = "Err"
          /\ cm.index_file = cm.before
    /\ cm.index_file # cm.before =>
          \A id \in RemoteIds : Sharing(id) > 1 => Stored(id)

\* the second shared id failed after the first was stored; an older index is untouched
C5_Witness ==
    /\ FailedDownload
    /\ Len(cm.downloads) = 2
    /\ cm.downloads[1].outcome[1] = "Ok"
    /\ cm.pc = "done"
    /\ cm.before = Some(OldIndex)
    /\ cm.index_file = Some(OldIndex)

(***************************************************************************)
(* Properties of backend selection and of the Open Cloud client.           *)
(***************************************************************************)
BothCreatorIds(cr) == IsSome(cr.group_id) /\ IsSome(cr.user_id)

\* C2: get_preferred_client returns a usable client: the Open Cloud client
\* whenever an API key is present (and not both creator ids), the legacy
\* client whenever the key is absent and a cookie is present (and not both ids).
C2_SelectsBackend ==
    selected # None =>
        /\ (IsSome(input.api_key) /\ ~BothCreatorIds(input)) =>
              (Unwrap(selected)[1] = "Ok" /\ Unwrap(selected)[2] = "OpenCloudClient")
        /\ (~IsSome(input.api_key) /\ IsSome(input.token) /\ ~BothCreatorIds(input)) =>
              (Unwrap(selected)[1] = "Ok" /\ Unwrap(selected)[2] = "LegacyClient")

\* the polling ended on an in-progress answer, after nothing but those
PollingExhausted ==
    /\ oc.pc = "done"
    /\ oc.result = Some(<<"Err", "AssetGetFailed">>)
    /\ oc.in_progress = oc.polls

\* C10: if the operation reports in-progress on every poll, the upload fails
\* with AssetGetFailed after exactly 5 poll attempts.
C10_FivePollAttempts ==
    /\ PollingExhausted => oc.polls = 5
    /\ (oc.pc = "poll" /\ oc.in_progress = oc.polls) => oc.polls < 5

\* the upload ended on a terminal answer that followed k in-progress answers
ResolvedAfter(k) ==
    /\ oc.pc = "done"
    /\ IsSome(oc.terminal)
    /\ oc.in_progress = k
    /\ oc.polls = k + 1

\* C11: when the operation reports in-progress for the first k polls, k within
\* the retry cap, and then a terminal asset id, the upload makes exactly k + 1
\* poll calls and returns that asset id: the polling does not give up while no
\* more than MAX_RETRIES in-progress answers have come.
C11_ResolvesAfterKPolls ==
    /\ PollingExhausted => oc.in_progress > MAX_RETRIES
    /\ (IsSome(oc.terminal) /\ oc.in_progress <= MAX_RETRIES) =>
          /\ oc.pc = "done"
          /\ oc.polls = oc.in_progress + 1
          /\ \A n \in 0..99 :
               Unwrap(oc.terminal) = Decimal(n) =>
                  (Unwrap(oc.result)[1] = "Ok" /\ Unwrap(oc.result)[2] = n)

\* three in-progress answers, then asset id 42: four polls, 42 returned
C11_Witness ==
    /\ ResolvedAfter(3)
    /\ oc.terminal = Some(<<"4", "2">>)
    /\ Unwrap(oc.result)[1] = "Ok"
    /\ Unwrap(oc.result)[2] = 42

RECURSIVE Total(_)
Total(waits) == IF waits = <<>> THEN 0 ELSE Head(waits) + Total(Tail(waits))

RECURSIVE SumOfSquares(_)
SumOfSquares(n) == IF n = 0 THEN 0 ELSE n * n + SumOfSquares(n - 1)

\* C12: the wait before the n-th re-poll is 50 ms times n squared; successive
\* waits are strictly increasing, and the total wait of one upload is bounded
\* (by the waits of the polls the retry cap allows).
C12_QuadraticBackoff ==
    /\ \A n \in 1..Len(oc.slept) :
         /\ oc.slept[n] = 50 * n * n
         /\ n > 1 => oc.slept[n] > oc.slept[n - 1]
    /\ Len(oc.slept) = oc.in_progress - (IF PollingExhausted THEN 1 ELSE 0)
    /\ Total(oc.slept) <= 50 * SumOfSquares(MAX_RETRIES + 1)

\* three re-polls have been waited for: 50, 200 and 450 ms
C12_Witness ==
    /\ oc.pc = "poll"
    /\ oc.in_progress = 3
    /\ oc.slept = <<50, 200, 450>>

\* C13: every successful upload through the Open Cloud client returns assetId
\* and backingAssetId both equal to the asset id of the terminal poll.
C13_BothIdsResolved ==
    (oc.op = "upload" /\ oc.pc = "done" /\ Unwrap(oc.result)[1] = "Ok") =>
        /\ IsSome(oc.terminal)
        /\ \E n \in 0..99 :
             /\ Unwrap(oc.terminal) = Decimal(n)
             /\ Unwrap(oc.result) = <<"Ok", n, n>>

\* the terminal poll carried "5": the upload returned 5 for both ids
C13_Witness ==
    /\ oc.op = "upload"
    /\ oc.pc = "done"
    /\ oc.terminal = Some(<<"5">>)
    /\ oc.result = Some(<<"Ok", 5, 5>>)

\* C14: download on the Open Cloud client returns an unsupported-operation
\* error value for every id: no request is made, no bytes are returned and
\* the process does not crash.
C14_DownloadUnsupported ==
    (oc.op = "download" /\ oc.pc = "done") =>
        /\ Unwrap(oc.result)[1] = "Err"
        /\ oc.creates = 0
        /\ oc.polls = 0

\* C15: a create response without an operation path fails the upload with
\* MissingOperationPath, one whose path is not operations/<id> fails it with
\* MalformedOperationPath; both are terminal and no poll is made.
C15_OperationPathErrors ==
    (oc.op = "upload" /\ IsSome(oc.path)) =>
        /\ ~IsSome(Unwrap(oc.path)) =>
              /\ oc.pc = "done"
              /\ oc.result = Some(<<"Err", "MissingOperationPath">>)
              /\ oc.polls = 0
        /\ (IsSome(Unwrap(oc.path)) /\ Unwrap(Unwrap(oc.path))[1] # "operations/") =>
              /\ oc.pc = "done"
              /\ oc.result = Some(<<"Err", "MalformedOperationPath">>)
              /\ oc.polls = 0

(***************************************************************************)
(* Further properties of the cookie+CSRF clients.                          *)
(***************************************************************************)
ForbiddenNoToken == [status |-> FORBIDDEN, csrf |-> None]

\* C16: a 403 response without an X-CSRF-Token header is returned to the
\* caller as it is: the step that receives it returns it, one request has been
\* sent by the call to execute_with_csrf_retry, no retry follows and the
\* cached token is left unchanged.
C16_ForbiddenWithoutToken ==
    /\ [](\A c \in Calls :
            call[c].first = Some(ForbiddenNoToken) =>
               /\ call[c].pc \in {"exec_ret", "done", "xml_loop"}
               /\ call[c].tries = 1
               /\ Unwrap(call[c].ret)[1] = "Ok"
               /\ HeadOf(Unwrap(call[c].ret)[2]) = ForbiddenNoToken)
    /\ [][\A c \in Calls :
            (call[c].pc = "exec_send" /\ call'[c].first = Some(ForbiddenNoToken)) =>
               /\ call'[c].pc = "exec_ret"
               /\ Len(call'[c].sent) = Len(call[c].sent) + 1
               /\ csrf_token' = csrf_token]_vars

\* a 403 without the header has been returned after one request, the token
\* fetched at construction still cached
C16_Witness ==
    \E c \in Calls :
        /\ kind = "LegacyClient"
        /\ call[c].pc = "exec_ret"
        /\ call[c].first = Some(ForbiddenNoToken)
        /\ Len(call[c].sent) = 1
        /\ Unwrap(call[c].ret)[2].status = FORBIDDEN
        /\ csrf_token = Some("T0")

\* the constructor asked for a token and got none, and none was stored since
FetchFailed ==
    /\ client # "none"
    /\ IsSome(credentials.token)
    /\ ctor_requests = 1
    /\ csrf_token = None

\* the requests a call has built: those sent and the one about to be
Built(c) ==
    {call[c].sent[i] : i \in 1..Len(call[c].sent)}
        \cup (IF IsSome(call[c].request) THEN {Unwrap(call[c].request)} ELSE {})

\* C20: construction succeeds although the fetch of the initial CSRF token
\* failed: the client starts with no cached token, and its requests, the
\* first one included, go out with the session cookie and without an
\* X-CSRF-Token header (until a 403 brings a token).
C20_ConstructionSurvivesFetchFailure ==
    /\ (kind = "LegacyClient" /\ client # "none") => client = "ready"
    /\ (kind = "RobloxApiClient" /\ client # "none") =>
          client \in {"ready", "MissingAuth", "ApiKeyNeedsCreatorId", "AmbiguousCreatorType"}
    /\ (FetchFailed /\ client = "ready") =>
          \A c \in Calls : \A request \in Built(c) :
             /\ request.cookie = Some(<<".ROBLOSECURITY=", Unwrap(credentials.token)>>)
             /\ request.csrf = None

\* the fetch failed, the client is ready and its first request has gone out
C20_Witness ==
    \E c \in Calls :
        /\ kind = "LegacyClient"
        /\ FetchFailed
        /\ client = "ready"
        /\ Len(call[c].sent) = 1
        /\ call[c].sent[1].cookie = Some(<<".ROBLOSECURITY=", "cookie">>)
        /\ call[c].sent[1].csrf = None

\* the values a cached token can be: what the constructor fetched or what a
\* 403 response carried
CompleteTokens == {Some("T0")} \cup {h.csrf : h \in {g \in Heads : g.status = FORBIDDEN}}

Ran(name) == \E i \in 1..Len(ui.steps) : ui.steps[i] = name
Before(a, b) ==
    \A j \in 1..Len(ui.steps) :
        ui.steps[j] = b => \E i \in 1..(j - 1) : ui.steps[i] = a
FailedAt(name) ==
    /\ ui.pc = "done"
    /\ ui.steps # <<>>
    /\ ui.steps[Len(ui.steps)] = name
    /\ Unwrap(ui.result)[1] # "Ok"

\* C17: the command runs decode, resize (when requested), alpha-bleed,
\* PNG-encode, client construction and upload in that order: a requested
\* resize comes before the alpha bleed, the upload comes only after the
\* preprocessing has succeeded, and a decode or encode failure ends the
\* command with an error before a client is constructed or a request sent.
C17_PreprocessBeforeUpload ==
    /\ Before("decode", "resize") /\ Before("decode", "alpha_bleed")
    /\ Before("alpha_bleed", "encode") /\ Before("encode", "client")
    /\ Before("client", "upload")
    /\ Ran("alpha_bleed") => (Ran("resize") <=> IsSome(ui.resize))
    /\ Before("resize", "alpha_bleed") \/ ~IsSome(ui.resize)
    /\ Ran("client") =>
          /\ IsSome(ui.encoded_image)
          /\ Unwrap(ui.encoded_image) =
                <<"png", Image(IF IsSome(ui.resize) THEN Unwrap(ui.resize) ELSE FileDimensions,
                               TRUE)>>
    /\ (FailedAt("decode") \/ FailedAt("encode")) =>
          /\ ~Ran("client")
          /\ ~Ran("upload")
          /\ ui.client = None
    /\ \A i, j \in 1..Len(ui.steps) : i # j => ui.steps[i] # ui.steps[j]

\* a resize was requested and the command went all the way to a successful upload
C17_Witness ==
    /\ ui.pc = "done"
    /\ ui.resize = Some(<<32, 16>>)
    /\ ui.steps = <<"read", "decode", "resize", "alpha_bleed", "encode", "client", "upload">>
    /\ ui.result = Some(<<"Ok">>)

(***************************************************************************)
(* Properties of the sync command.                                         *)
(***************************************************************************)
\* the upload attempts a sync makes for an asset that is rate limited
\* main.rate_limited times in a row: one, and one more for each rate limit
\* met, as long as the configured maximum of re-uploads is not used up
ExpectedAttempts ==
    IF IsSome(main.retry) /\ main.rate_limited > Unwrap(main.retry)
    THEN Unwrap(main.retry) + 1
    ELSE main.rate_limited + 1

\* C19: the sync re-attempts a rate-limited upload with the configured fixed
\* delay between attempts, at most the configured maximum number of times
\* (without limit when none is configured), and aborts with a failing outcome
\* once the maximum is exceeded.
C19_SyncRetriesRateLimited ==
    (main.pc = "exited" /\ main.target = "Roblox") =>
        /\ main.attempts = ExpectedAttempts
        /\ main.slept = [i \in 1..(ExpectedAttempts - 1) |-> main.retry_delay]
        /\ (IsSome(main.retry) /\ main.rate_limited > Unwrap(main.retry)) =>
              main.exit = Some(1)
        /\ (~IsSome(main.retry) \/ main.rate_limited <= Unwrap(main.retry)) =>
              main.exit = Some(0)

(***************************************************************************)
(* Properties of the legacy download's treatment of HTTP statuses.         *)
(***************************************************************************)
\* C21: a legacy download whose final response has a non-success status
\* returns an error; it never returns Ok with the bytes of that response.
C21_DownloadErrorStatus ==
    \A c \in Calls :
        (/\ call[c].pc = "done"
         /\ call[c].op = "download"
         /\ IsSome(call[c].last)
         /\ ~IsSuccess(Unwrap(call[c].last).status)) =>
            Unwrap(call[c].result)[1] = "Err"

(***************************************************************************)
(* Properties of the polling wait under main's select.                     *)
(***************************************************************************)
\* C22: while an upload is in its polling backoff wait the process is not
\* blocked: a pending interrupt can be handled during the wait.
C22_WaitDoesNotBlock ==
    (oc.pc = "sleep" /\ sig = "pending") => ENABLED CtrlC

(***************************************************************************)
(* Properties of the creator ids on the legacy backend.                    *)
(***************************************************************************)
\* the upload request of a client whose credentials name no creator
PlainUpload(request) ==
    request.endpoint = "upload" /\ request.arg = None

\* C23: without an API key the userId and groupId of the credentials have no
\* effect: every upload request the legacy client sends is the one it sends
\* for credentials that name neither.
C23_CreatorIdsWithoutEffect ==
    ~IsSome(credentials.api_key) =>
        \A c \in Calls :
            call[c].op = "upload" =>
                \A i \in 1..Len(call[c].sent) : PlainUpload(call[c].sent[i])

(***************************************************************************)
(* Properties of the construction from an API key without a creator.       *)
(***************************************************************************)
KeyWithoutCreator(cr) ==
    IsSome(cr.api_key) /\ ~IsSome(cr.user_id) /\ ~IsSome(cr.group_id)

\* C24: constructing a client from credentials that hold an API key but
\* neither a userId nor a groupId fails with the error value
\* ApiKeyNeedsCreatorId: no client is produced and nothing crashes.
C24_KeyNeedsCreator ==
    (IsSome(selected) /\ KeyWithoutCreator(input)) =>
        Unwrap(selected) = <<"Err", "ApiKeyNeedsCreatorId">>

(***************************************************************************)
(* Properties of the commands that authenticate with the session cookie.   *)
(***************************************************************************)
CookieCommand == main.command \in {"CreateCacheMap", "DownloadImage"}
CookieAvailable == IsSome(main.auth) \/ IsSome(main.studio_cookie)

\* C25: create-cache-map and download-image authenticate with the session
\* cookie only and ignore any API key: with a cookie they go on with the
\* legacy backend, without one they fail with MissingAuth before the manifest
\* is read, before any directory or file is created and before any download.
C25_CookieOnlyCommands ==
    (CookieCommand /\ main.pc # "run") =>
        /\ CookieAvailable => main.client = Some("LegacyClient")
        /\ ~CookieAvailable =>
              /\ main.result = Some(<<"Err", "MissingAuth">>)
              /\ main.client = None
              /\ main.effects = <<>>

(***************************************************************************)
(* Properties of the asset list.                                           *)
(***************************************************************************)
\* the remote ids carried by the manifest's entries
ManifestIds == {Unwrap(al.inputs[i].id) : i \in {k \in 1..Len(al.inputs) : IsSome(al.inputs[k].id)}}

\* the number a line of the output reads as
LineValue(line) == Unwrap(U64FromStr(line))

ListWritten == al.pc = "done" /\ al.result = Some(<<"Ok">>)

\* C26: the asset-list output contains exactly the remote ids of the manifest:
\* each id on exactly one line however many entries share it, nothing for an
\* entry without an id, and the lines in strictly ascending numeric order.
C26_SortedUniqueIds ==
    ListWritten =>
        LET lines == Unwrap(al.file) IN
        /\ \A k \in 1..Len(lines) : IsSome(U64FromStr(lines[k]))
        /\ {LineValue(lines[k]) : k \in 1..Len(lines)} = ManifestIds
        /\ Len(lines) = Cardinality(ManifestIds)
        /\ \A j, k \in 1..Len(lines) : j < k => LineValue(lines[j]) < LineValue(lines[k])

\* a manifest where 42 is shared, comes before 7 in key order, and one entry
\* has no id: the output is 7, then 42
C26_Witness ==
    /\ ListWritten
    /\ al.inputs[1].id = Some(42)
    /\ al.inputs[2].id = None
    /\ al.inputs[3].id = Some(7)
    /\ al.inputs[4].id = Some(42)
    /\ Unwrap(al.file) = << <<"7">>, <<"4", "2">> >>

(***************************************************************************)
(* Properties of the completion of the legacy client's calls.              *)
(***************************************************************************)
\* C27: a call of execute_with_csrf_retry never waits on a lock it holds
\* itself: the write guard taken to store the new token does not stand in the
\* way of the read that attach_headers makes for the retried request.
C27_NoSelfDeadlock ==
    \A c \in Calls : ~SelfBlocked(c)

\* an XML document with root element roblox and no url element in it
NoUrlElement(body) ==
    LET events == XmlEvents(body) IN
    /\ Len(events) >= 2
    /\ events[1] = StartDocument
    /\ events[2] = StartElement("roblox")
    /\ \A i \in 1..Len(events) : events[i] # StartElement("url")

\* the first response of the download has been looked at
Parsed(c) ==
    /\ call[c].op = "download"
    /\ call[c].stage = 1
    /\ call[c].pc \notin {"idle", "exec_attach", "exec_send", "exec_refresh",
                          "exec_attach_retry", "exec_send_retry", "exec_ret"}
    /\ IsSome(call[c].ret)
    /\ Unwrap(call[c].ret)[1] = "Ok"

\* C28: legacy download_image terminates on every response: for a roblox
\* document without a url element the call ends with the error 'missing url
\* element in xml response'.
C28_DownloadTerminates ==
    \A c \in Calls :
        (kind = "LegacyClient" /\ Parsed(c) /\ NoUrlElement(Unwrap(call[c].ret)[2].body)) =>
            /\ call[c].pc = "done"
            /\ call[c].result = Some(<<"Err", "missing url element in xml response">>)

\* C29: legacy upload returns an Ok or Err value and never crashes, whatever
\* optional fields a well-formed body of an HTTP-success response leaves out.
C29_UploadNeverCrashes ==
    \A c \in Calls :
        (call[c].pc = "done" /\ call[c].op = "upload") =>
            Unwrap(call[c].result)[1] \in {"Ok", "Err"}

(***************************************************************************)
(* Properties of the cached CSRF token as a piece of state.                *)
(***************************************************************************)
\* C30: on a constructed client the cached CSRF token changes only in the
\* step that handles a 403 response carrying an X-CSRF-Token header, and
\* becomes that header's value; every other response and a transport error
\* leave it unchanged; and every request that goes out carries the token
\* cached at the time, the refreshed one after a refresh.
C30_TokenChangesOnRefreshOnly ==
    /\ [][(client = "ready" /\ csrf_token' # csrf_token) =>
            \E c \in Calls :
                /\ call[c].pc = "exec_refresh"
                /\ call'[c].pc = "exec_attach_retry"
                /\ Unwrap(call[c].first).status = FORBIDDEN
                /\ IsSome(Unwrap(call[c].first).csrf)
                /\ csrf_token' = Unwrap(call[c].first).csrf]_vars
    /\ [](\A c \in Calls :
            call[c].pc \in {"exec_send", "exec_send_retry"} =>
                Unwrap(call[c].request).csrf = csrf_token)

\* a later call on a client whose token was refreshed to T1 is about to send
\* its first request, with T1 attached
C30_Witness ==
    \E c \in Calls :
        /\ call[c].pc = "exec_send"
        /\ call[c].tries = 0
        /\ csrf_token = Some("T1")
        /\ Unwrap(call[c].request).csrf = Some("T1")

(***************************************************************************)
(* Properties of the errors met while polling.                             *)
(***************************************************************************)
\* an asset id string that is not an unsigned integer
Unparsable(text) == text = <<>> \/ \E i \in 1..Len(text) : text[i] \notin Digits

\* every in-progress answer so far was followed by its wait and by the next
\* poll, and the poll that ended the upload by neither
EndedAtOnce ==
    /\ oc.pc = "done"
    /\ oc.polls = oc.in_progress + 1
    /\ Len(oc.slept) = oc.in_progress

\* C32: in the Open Cloud client's polling, an error returned by a poll
\* request, or a terminal response whose asset id string does not parse as an
\* unsigned integer, ends the upload at once with an error (AssetGetFailed
\* for the parse failure): no further poll is issued, no backoff wait taken.
C32_PollErrorsEndUpload ==
    /\ []((IsSome(oc.terminal) /\ Unparsable(Unwrap(oc.terminal))) =>
            (EndedAtOnce /\ oc.result = Some(<<"Err", "AssetGetFailed">>)))
    /\ []((oc.result = Some(<<"Err", "RbxCloud">>) /\ oc.polls > 0) => EndedAtOnce)
    /\ [][(/\ oc.pc = "poll"
           /\ \/ oc'.result = Some(<<"Err", "RbxCloud">>)
              \/ IsSome(oc'.terminal) /\ Unparsable(Unwrap(oc'.terminal))) =>
             /\ oc'.pc = "done"
             /\ oc'.polls = oc.polls + 1
             /\ oc'.slept = oc.slept
             /\ Unwrap(oc'.result)[1] = "Err"]_vars

\* two in-progress answers, then the asset id "4x": three polls, two waits,
\* AssetGetFailed
C32_Witness ==
    /\ oc.pc = "done"
    /\ oc.terminal = Some(<<"4", "x">>)
    /\ oc.in_progress = 2
    /\ oc.polls = 3
    /\ oc.slept = <<50, 200>>
    /\ oc.result = Some(<<"Err", "AssetGetFailed">>)

(***************************************************************************)
(* Properties of the key set of the cache index.                           *)
(***************************************************************************)
\* the remote ids carried by the entries of the manifest of the run
CarriedIds ==
    {Unwrap(cm.inputs[i].id) : i \in {k \in 1..Len(cm.inputs) : IsSome(cm.inputs[k].id)}}

\* the keys of the index file as written
WrittenKeys == {e[1] : e \in Unwrap(cm.index_file)[2]}

\* C33: after a successful create_cache_map run the key set of the written
\* index is exactly the set of remote ids carried by manifest entries: an
\* entry without a remote id contributes no key and causes no download, every
\* remote id of the manifest has exactly one key, and nothing of an earlier
\* index is kept.
C33_IndexKeysAreManifestIds ==
    Succeeded =>
        /\ IsSome(cm.index_file)
        /\ WrittenKeys = {Decimal(id) : id \in CarriedIds}
        /\ Cardinality(Unwrap(cm.index_file)[2]) = Cardinality(CarriedIds)
        /\ \A k \in 1..Len(cm.downloads) : cm.downloads[k].id \in CarriedIds

\* two of four entries carry no id, the other two share 7, and an older index
\* with key 9 was in place: the written index has the one key 7
C33_Witness ==
    /\ Succeeded
    /\ cm.before = Some(OldIndex)
    /\ cm.inputs[1].id = None
    /\ cm.inputs[2].id = Some(7)
    /\ cm.inputs[3].id = None
    /\ cm.inputs[4].id = Some(7)
    /\ WrittenKeys = {<<"7">>}
    /\ Len(cm.downloads) = 1

(***************************************************************************)
(* Properties of upload_image_with_moderation_retry.                       *)
(***************************************************************************)
\* the body of an HTTP-success answer that reports the failure `message`
Rejected(response, message) ==
    /\ IsSuccess(response.status)
    /\ IsSome(FromStr(response.body))
    /\ ~Unwrap(FromStr(response.body)).success
    /\ Unwrap(FromStr(response.body)).message = Some(message)

\* the requests of the call that went out under the name n
Named(c, n) == {i \in 1..Len(call[c].sent) : call[c].sent[i].name = n}

\* the answer to the first upload of the call: kept while the re-upload runs
FirstAnswerRejected(c, message) ==
    /\ IsSome(call[c].doc)
    /\ Rejected([status |-> 200, body |-> Unwrap(call[c].doc)], message)

\* C31: upload_image_with_moderation_retry re-uploads at most once: a first
\* upload rejected with a message containing 'inappropriate' is followed by
\* exactly one more upload, under the name 'image' with the same bytes and
\* description, whose outcome is returned even if it is rejected again; any
\* other failure message is returned as ApiError with no re-upload; so one
\* call makes at most two upload attempts.
C31_ModerationRetryOnce ==
    /\ [](\A c \in Calls :
            call[c].moderated =>
                /\ call[c].stage \in {1, 2}
                /\ \A i \in 1..Len(call[c].sent) :
                     /\ call[c].sent[i].data = Some(UploadData)
                     /\ call[c].sent[i].arg = call[c].sent[1].arg
                     /\ call[c].sent[i].name \in ImageNames \cup {"image"}
                     /\ \A j \in 1..i :
                          call[c].sent[j].name = "image" => call[c].sent[i].name = "image"
                /\ call[c].stage = 1 => Named(c, "image") = {}
                /\ call[c].stage = 2 =>
                     /\ FirstAnswerRejected(c, "inappropriate name")
                     /\ Named(c, "image") # {} => call[c].sent[1].name \in ImageNames
                /\ (call[c].pc = "done" /\ call[c].stage = 2) =>
                     /\ Named(c, "image") # {}
                     /\ call[c].result = Some(UploadImage(Unwrap(call[c].ret)))
                /\ (call[c].pc = "done" /\ call[c].stage = 1) =>
                     LET ret == Unwrap(call[c].ret) IN
                     /\ ret[1] = "Ok" => ~Rejected(ret[2], "inappropriate name")
                     /\ (ret[1] = "Ok" /\ Rejected(ret[2], "rate limited")) =>
                          call[c].result = Some(<<"Err", "ApiError", "rate limited">>))
    /\ [][\A c \in Calls :
            (/\ call[c].moderated
             /\ call[c].pc = "exec_ret"
             /\ call[c].stage = 1
             /\ Unwrap(call[c].ret)[1] = "Ok"
             /\ Rejected(Unwrap(call[c].ret)[2], "inappropriate name")
             /\ call'[c] # call[c]) =>
                /\ call'[c].pc = "exec_attach"
                /\ call'[c].stage = 2
                /\ call'[c].name = "image"
                /\ call'[c].data = call[c].data]_vars

\* the name was rejected, the re-upload under 'image' was rejected as well,
\* and that second rejection is what the call returned: two uploads in all
C31_Witness ==
    \E c \in Calls :
        /\ call[c].moderated
        /\ call[c].pc = "done"
        /\ call[c].stage = 2
        /\ Len(call[c].sent) = 2
        /\ call[c].sent[1].name = "sword"
        /\ call[c].sent[2].name = "image"
        /\ call[c].sent[2].data = call[c].sent[1].data
        /\ Rejected(Unwrap(call[c].ret)[2], "inappropriate name")
        /\ call[c].result = Some(<<"Err", "ApiError", "inappropriate name">>)

====
